---- MODULE Spec2Model ----
(***************************************************************************)
(* State-machine model of the swarm backend: the in-memory run registry    *)
(* and event log (backend/app/swarm_runtime.py), the model fan-out         *)
(* executor (backend/app/swarm_orchestrator.py), the two observers of a     *)
(* run's events (backend/app/routers/runs.py), the planner routes          *)
(* (backend/app/routers/planner.py), the files written under artifacts/    *)
(* (write_sse_sample, backend/app/trace_exporter.py), and the pure         *)
(* functions on planner specs (normalize_spec, backend/app/                *)
(* eval_questions.py).                                                     *)
(*                                                                         *)
(* The program runs on one asyncio event loop: a coroutine runs without    *)
(* interruption from one await that really suspends to the next, so each   *)
(* action below is one such stretch of code.                               *)
(***************************************************************************)
EXTENDS Integers, Sequences, FiniteSets, TLC

\* ------------------------------------------------------------------ bounds
MaxTasks == 2         \* |models| x reps of a run in the small configurations
MaxChunks == 2        \* items the collaborator's streams yield in all, per run
SatExtra == 1         \* tasks beyond the limiter's capacity in the saturated configuration
SatChunks == 1        \* items the streams yield in all in the saturated configuration
SatRaises == 1        \* streams that raise in the saturated configuration
MaxCalls == 4         \* direct calls on the runtime in the registry configuration
MaxHandlers == 2      \* streaming handlers open at once in the multi-handler configuration
MaxConcurrentRuns == 2 \* saturated runs executing at once
MaxSampleRuns == 2    \* runs in the sample-file configuration
MaxExportCalls == 3   \* calls from outside in the sample-file and export configurations
MaxQuestions == 3     \* items of a list handed to validate_eval_questions
MaxConfirmCalls == 2  \* confirmations requested in the confirmation configuration

\* ------------------------------------------------------- program constants
_MAX_CONCURRENCY == 10
DefaultReps == 5      \* run_swarm's reps when the caller passes none

\* Python's None and an optional value: None is the empty set, a present value v
\* is {v}.
None == {}

Some(v) == {v}

The(o) == CHOOSE v \in o : TRUE

VARIABLES
    sessions,   \* runtime.sessions : session id -> session
    runs,       \* runtime.runs : run id -> run (status, events, cursor, results, queue, ...)
    swarm,      \* per run, the run_swarm invocation: its arguments, position, limiter
    tasks,      \* per run, the _run_single_model coroutines gathered by run_swarm
    handlers,   \* the stream_run_events generators (one per open HTTP stream)
    reader,     \* a client paging through GET /runs/{id}/events
    query,      \* the last free-form get_events call and what it returned
    env,        \* the environment of this behaviour: sizes and collaborator timing
    calls,      \* the calls made on the runtime and the routes from outside, with their outcome
    disk,       \* the file system under artifacts/: directories, and files with their content
    applied,    \* the call of a pure function under way: its name, argument and outcome
    chats       \* the planner message requests waiting for run_planner_chat: their session ids

vars ==
    <<sessions, runs, swarm, tasks, handlers, reader, query, env, calls, disk,
      applied, chats>>

\* ------------------------------------------------------------ text values
\* A Python str is modelled as a sequence of one-character strings, so that
\* str(), int() and f"{n:04d}" are computed and not assumed.
Digits == <<"0", "1", "2", "3", "4", "5", "6", "7", "8", "9">>

DigitValue(ch) == CHOOSE d \in 0..9 : Digits[d + 1] = ch

IsDigit(ch) == \E d \in 0..9 : Digits[d + 1] = ch

RECURSIVE NatToStr(_)
NatToStr(n) == IF n < 10 THEN <<Digits[n + 1]>>
               ELSE NatToStr(n \div 10) \o <<Digits[(n % 10) + 1]>>

\* str(n) for an int
Str(n) == IF n < 0 THEN <<"-">> \o NatToStr(-n) ELSE NatToStr(n)

RECURSIVE DigitsToNat(_)
DigitsToNat(s) == IF s = <<>> THEN 0
                  ELSE 10 * DigitsToNat(SubSeq(s, 1, Len(s) - 1)) + DigitValue(s[Len(s)])

\* The characters str.strip() and int() take for whitespace, among those used here
Whitespace == {" ", "\t", "\n", "\r", "\f"}

RECURSIVE StripLeft(_)
StripLeft(s) == IF s # <<>> /\ s[1] \in Whitespace THEN StripLeft(Tail(s)) ELSE s

RECURSIVE StripRight(_)
StripRight(s) == IF s # <<>> /\ s[Len(s)] \in Whitespace THEN StripRight(SubSeq(s, 1, Len(s) - 1)) ELSE s

Strip(s) == StripRight(StripLeft(s))

\* str.replace(old, new) for one-character old and new
Replace(chars, old, new) ==
    [i \in 1..Len(chars) |-> IF chars[i] = old THEN new ELSE chars[i]]

Unsigned(s) == IF s # <<>> /\ s[1] \in {"-", "+"} THEN Tail(s) ELSE s

\* int(s) accepts surrounding blanks, one sign, and digits with single
\* underscores between them; anything else raises ValueError. (Of the blanks
\* Python strips, the vertical tab and the separators \x1c-\x1f are not among
\* the characters used here, nor are digits outside 0-9.)
IntParses(s) ==
    LET u == Unsigned(Strip(s))
    IN /\ u # <<>>
       /\ \A i \in 1..Len(u) : IsDigit(u[i]) \/ u[i] = "_"
       /\ IsDigit(u[1]) /\ IsDigit(u[Len(u)])
       /\ \A i \in 1..(Len(u) - 1) : ~(u[i] = "_" /\ u[i + 1] = "_")

Int_(s) ==
    LET t == Strip(s)
        digit(c) == c # "_"
        u == SelectSeq(Unsigned(t), digit)
    IN IF t[1] = "-" THEN 0 - DigitsToNat(u) ELSE DigitsToNat(u)

\* f"{n:04d}"
Pad4(n) ==
    LET d == Str(n)
    IN IF Len(d) >= 4 THEN d ELSE [i \in 1..(4 - Len(d)) |-> "0"] \o d

EventId(n) == <<"e", "v", "t", "_">> \o Pad4(n)

\* ------------------------------------------------ runtime: sessions, runs
\* uuid4(): an id no session or run has yet
FreshId(table) == Cardinality(DOMAIN table) + 1

NewSession(session_id) ==
    [session_id |-> session_id, status |-> "active", messages |-> <<>>,
     draft_prompt |-> <<>>, ready_to_confirm |-> FALSE]

\* asyncio.Queue(): unbounded FIFO. items keeps everything ever put, head counts
\* the items already taken by get(); the pending content is what lies after head.
NewQueue == [items |-> <<>>, head |-> 0]

PutNowait(q, item) == [q EXCEPT !.items = Append(@, item)]

QueuePending(q) == SubSeq(q.items, q.head + 1, Len(q.items))

QueueEmpty(q) == q.head = Len(q.items)

QueueFront(q) == q.items[q.head + 1]

\* A variant of get() that leaves the item on the queue.
QueuePeek(q) == q

\* get(): the front item leaves the queue
QueueGet(q) == [q EXCEPT !.head = @ + 1]

Sentinel == [_sentinel |-> TRUE]

IsSentinel(item) == "_sentinel" \in DOMAIN item

\* create_run's dict. A Python dict keeps its keys in insertion order: results is
\* the mapping and result_keys the order in which its keys were first set.
NewRun(run_id, session_id) ==
    [run_id |-> run_id, session_id |-> session_id, status |-> "running",
     events |-> <<>>, cursor |-> 0, results |-> <<>>, result_keys |-> <<>>,
     queue |-> NewQueue, sse_sample_path |-> <<>>]

\* The keyword arguments of one add_run_event call; absent extras are None.
EventArgs(agent_id, event_type, phase, content, model, model_id, rep_index, chunk_index, content_delta, usage) ==
    [agent_id |-> agent_id, event_type |-> event_type, phase |-> phase,
     content |-> content, model |-> model, model_id |-> model_id,
     rep_index |-> rep_index, chunk_index |-> chunk_index,
     content_delta |-> content_delta, usage |-> usage]

BuildEvent(run, cursor, a) ==
    [event_id |-> EventId(cursor), cursor |-> Str(cursor),
     run_id |-> run.run_id, session_id |-> run.session_id,
     agent_id |-> a.agent_id, event_type |-> a.event_type, phase |-> a.phase,
     content |-> a.content, model |-> a.model, model_id |-> a.model_id,
     rep_index |-> a.rep_index, chunk_index |-> a.chunk_index,
     content_delta |-> a.content_delta, usage |-> a.usage]

\* A variant that numbers the event before the counter is advanced.
NextCursorStale(run) == run.cursor

\* The cursor add_run_event gives the event it builds.
NextCursor(run) == run.cursor + 1

\* add_run_event on a known run: the run afterwards.
AddRunEvent(run, a) ==
    LET c == NextCursor(run)
        event == BuildEvent(run, c, a)
    IN [run EXCEPT !.cursor = c,
                   !.events = Append(@, event),
                   !.queue = PutNowait(@, event)]

\* A variant of the key that leaves the repetition index out.
ResultKeyModelOnly(model_id, rep_index) == <<model_id, "::">>

\* f"{model_id}::{rep_index}" (a model id is one token of the text)
ResultKey(model_id, rep_index) == <<model_id, "::">> \o Str(rep_index)

\* A variant that replaces the dict by one holding the new entry only.
DictSetOnly(d, key, value) == [k \in {key} |-> value]

\* dict assignment: results[key] = result
DictSet(d, key, value) ==
    [k \in (DOMAIN d) \cup {key} |-> IF k = key THEN value ELSE d[k]]

\* The insertion order of a dict after d[key] = value: a new key goes last, a
\* key the dict has keeps its place.
KeysAfterSet(keys, key) ==
    IF \E i \in 1..Len(keys) : keys[i] = key THEN keys ELSE Append(keys, key)

SetModelResult(run, model_id, rep_index, result) ==
    [run EXCEPT !.results = DictSet(@, ResultKey(model_id, rep_index), result),
                !.result_keys = KeysAfterSet(@, ResultKey(model_id, rep_index))]

GetResults(run) == run.results

\* results.items() of the copy get_results returns: the values in insertion order
ResultItems(run) ==
    LET present(key) == key \in DOMAIN run.results
        keys == SelectSeq(run.result_keys, present)
    IN [i \in 1..Len(keys) |-> run.results[keys[i]]]

\* A variant that compares with >=.
CursorAfterOrAt(e, cursor_int) == Int_(e.cursor) >= cursor_int

\* int(e["cursor"]) > cursor_int
CursorAfter(e, cursor_int) == Int_(e.cursor) > cursor_int

\* A variant that filters on the event's model field.
ModelIs(e, model_id) == e.model = model_id

\* e.get("model_id") == model_id
ModelIdIs(e, model_id) == e.model_id = Some(model_id)

\* get_events(run_id, cursor, model_id) on a known run; cursor and model_id are
\* optional, and a present cursor must satisfy IntParses (int() raises otherwise).
GetEvents(run, cursor, model_id) ==
    LET afterCursor(e) == CursorAfter(e, Int_(The(cursor)))
        ofModel(e) == ModelIdIs(e, The(model_id))
        e1 == IF cursor # None THEN SelectSeq(run.events, afterCursor) ELSE run.events
    IN IF model_id # None THEN SelectSeq(e1, ofModel) ELSE e1

\* A variant that flips the status.
SetRunCompleteToggle(run) ==
    [run EXCEPT !.status = IF @ = "completed" THEN "running" ELSE "completed",
                !.queue = PutNowait(@, Sentinel)]

\* A variant that sets the status and enqueues nothing.
SetRunCompleteSilent(run) == [run EXCEPT !.status = "completed"]

SetRunComplete(run) ==
    [run EXCEPT !.status = "completed", !.queue = PutNowait(@, Sentinel)]

\* to_sse_block: the three lines of one wire frame
ToSseBlock(event) ==
    [id |-> event.cursor, event |-> event.event_type, data |-> event]

\* --------------------------------------------------- the file system
\* A path is a directory (its components) and a file name; a name is text, its
\* last token the extension. The disk holds the directories made and the files
\* written, each with its content.
NewDisk == [dirs |-> {}, files |-> <<>>]

FilePath(dir, name) == [dir |-> dir, name |-> name]

\* str(path)
RECURSIVE JoinDir(_)
JoinDir(dir) ==
    IF dir = <<>> THEN <<>>
    ELSE IF Len(dir) = 1 THEN dir
    ELSE <<dir[1], "/">> \o JoinDir(Tail(dir))

PathStr(path) == JoinDir(path.dir) \o <<"/">> \o path.name

\* mkdir(parents=True, exist_ok=True)
Mkdir(d, dir) == [d EXCEPT !.dirs = @ \cup {SubSeq(dir, 1, n) : n \in 1..Len(dir)}]

\* dir.glob("*" + suffix): the files of the directory itself whose name ends so
Glob(d, dir, suffix) ==
    {path \in DOMAIN d.files :
        path.dir = dir /\ path.name # <<>> /\ path.name[Len(path.name)] = suffix}

Unlink(d, paths) == [d EXCEPT !.files = [path \in (DOMAIN @) \ paths |-> @[path]]]

\* path.write_text(content): make the file or replace its whole content
WriteText(d, path, content) == [d EXCEPT !.files = DictSet(@, path, content)]

SseDir == <<"artifacts", "sse">>

SampleOutputPath == FilePath(SseDir, <<"sample_output", ".txt">>)

\* "".join(to_sse_block(event) for event in events): the frames, one after the
\* other
SampleText(events) == [i \in 1..Len(events) |-> ToSseBlock(events[i])]

\* write_sse_sample on a known run: the run and the disk afterwards
WriteSseSample(run, d) ==
    LET made == Mkdir(d, SseDir)
        cleared == Unlink(made, Glob(made, SseDir, ".txt"))
    IN [run |-> [run EXCEPT !.sse_sample_path = PathStr(SampleOutputPath)],
        disk |-> WriteText(cleared, SampleOutputPath, SampleText(run.events))]

\* ------------------------------------------- runtime: calls by identifier
\* The methods of SwarmRuntime as called from outside, on the whole registry:
\* each looks its session or run up by id first, and the lookup of an unknown id
\* raises KeyError before the method has done anything.
Known(table, id) == id \in DOMAIN table

GetSession(ss, session_id) ==
    IF Known(ss, session_id) THEN [raised |-> FALSE, sessions |-> ss]
    ELSE [raised |-> TRUE, sessions |-> ss]

Message(role, content) == [role |-> role, content |-> content]

AddSessionMessage(ss, session_id, role, content) ==
    IF Known(ss, session_id)
    THEN [raised |-> FALSE,
          sessions |-> [ss EXCEPT ![session_id].messages = Append(@, Message(role, content))]]
    ELSE [raised |-> TRUE, sessions |-> ss]

RuntimeAddRunEvent(rs, run_id, a) ==
    IF Known(rs, run_id)
    THEN [raised |-> FALSE, runs |-> [rs EXCEPT ![run_id] = AddRunEvent(@, a)]]
    ELSE [raised |-> TRUE, runs |-> rs]

\* A variant that makes an entry for a run it does not know (setdefault).
RuntimeSetModelResultDefault(rs, run_id, model_id, rep_index, result) ==
    IF Known(rs, run_id)
    THEN [raised |-> FALSE,
          runs |-> [rs EXCEPT ![run_id] = SetModelResult(@, model_id, rep_index, result)]]
    ELSE [raised |-> TRUE,
          runs |-> Append(rs, SetModelResult(NewRun(FreshId(rs), 0), model_id,
                                             rep_index, result))]

RuntimeSetModelResult(rs, run_id, model_id, rep_index, result) ==
    IF Known(rs, run_id)
    THEN [raised |-> FALSE,
          runs |-> [rs EXCEPT ![run_id] = SetModelResult(@, model_id, rep_index, result)]]
    ELSE [raised |-> TRUE, runs |-> rs]

RuntimeGetResults(rs, run_id) ==
    IF Known(rs, run_id) THEN [raised |-> FALSE, runs |-> rs]
    ELSE [raised |-> TRUE, runs |-> rs]

\* get_events looks the run up before it parses the cursor
RuntimeGetEvents(rs, run_id, cursor) ==
    IF Known(rs, run_id)
    THEN [raised |-> cursor # None /\ ~IntParses(The(cursor)), runs |-> rs]
    ELSE [raised |-> TRUE, runs |-> rs]

RuntimeSetRunComplete(rs, run_id) ==
    IF Known(rs, run_id)
    THEN [raised |-> FALSE, runs |-> [rs EXCEPT ![run_id] = SetRunComplete(@)]]
    ELSE [raised |-> TRUE, runs |-> rs]

\* write_sse_sample looks the run up before it touches the disk
RuntimeWriteSseSample(rs, d, run_id) ==
    IF Known(rs, run_id)
    THEN [raised |-> FALSE,
          runs |-> [rs EXCEPT ![run_id] = WriteSseSample(@, d).run],
          disk |-> WriteSseSample(rs[run_id], d).disk]
    ELSE [raised |-> TRUE, runs |-> rs, disk |-> d]

\* ------------------------------------------------------- fan-out: inputs
\* ModelSpec values (id, derived name); a run's models are a prefix of the pool,
\* so the ids within one run are pairwise distinct.
ModelPool ==
    <<[id |-> "v/m1", name |-> "M1"], [id |-> "v/m2", name |-> "M2"],
      [id |-> "v/m3", name |-> "M3"], [id |-> "v/m4", name |-> "M4"],
      [id |-> "v/m5", name |-> "M5"], [id |-> "v/m6", name |-> "M6"],
      [id |-> "v/m7", name |-> "M7"], [id |-> "v/m8", name |-> "M8"],
      [id |-> "v/m9", name |-> "M9"], [id |-> "v/m10", name |-> "M10"],
      [id |-> "v/m11", name |-> "M11"], [id |-> "v/m12", name |-> "M12"],
      [id |-> "v/m13", name |-> "M13"], [id |-> "v/m14", name |-> "M14"]>>

Models(k) == SubSeq(ModelPool, 1, k)

\* A line of models.txt whose id has an underscore where the first model of the
\* pool has its slash; without a slash _derive_name gives the title-cased id.
UnderscoreModel == [id |-> "v_m1", name |-> "V_M1"]

\* A dict with string keys is a function on the keys it has; d.get(k) is optional.
DictGet(d, k) == IF k \in DOMAIN d THEN Some(d[k]) ELSE None

\* Python truthiness of an optional str: present and not empty
Truthy(o) == o # None /\ The(o) # <<>>

\* a or b
Or_(a, b) == IF Truthy(a) THEN a ELSE b

\* spec.get("prompt") or spec.get("prompt_template"): the two keys in the other order
SpecPromptPlainFirst(spec) == Or_(DictGet(spec, "prompt"), DictGet(spec, "prompt_template"))

\* prompt = spec.get("prompt_template") or spec.get("prompt"); normalize_spec
\* raises ValueError when neither is truthy
SpecPrompt(spec) == Or_(DictGet(spec, "prompt_template"), DictGet(spec, "prompt"))

\* ---- eval_questions validation (eval_questions.py)
\* A Python value that may or may not be a str, and a list item that may or may
\* not be a dict with string keys.
StrValue(text) == [is_str |-> TRUE, text |-> text]

NonStr == [is_str |-> FALSE, text |-> <<>>]

DictItem(fields) == [is_dict |-> TRUE, fields |-> fields]

NonDict == [is_dict |-> FALSE, fields |-> <<>>]

ListValue(items) == [is_list |-> TRUE, items |-> items]

NonList == [is_list |-> FALSE, items |-> <<>>]

EVAL_QUESTION_KEYS == {"id", "category", "question"}

_YES_NO_PREFIXES ==
    {<<"i", "s", " ">>, <<"a", "r", "e", " ">>, <<"d", "o", "e", "s", " ">>,
     <<"d", "o", " ">>, <<"d", "i", "d", " ">>, <<"c", "a", "n", " ">>,
     <<"c", "o", "u", "l", "d", " ">>, <<"s", "h", "o", "u", "l", "d", " ">>,
     <<"w", "o", "u", "l", "d", " ">>, <<"w", "i", "l", "l", " ">>,
     <<"h", "a", "s", " ">>, <<"h", "a", "v", "e", " ">>, <<"h", "a", "d", " ">>,
     <<"w", "a", "s", " ">>, <<"w", "e", "r", "e", " ">>}

UpperLetters ==
    <<"A", "B", "C", "D", "E", "F", "G", "H", "I", "J", "K", "L", "M", "N", "O",
      "P", "Q", "R", "S", "T", "U", "V", "W", "X", "Y", "Z">>

LowerLetters ==
    <<"a", "b", "c", "d", "e", "f", "g", "h", "i", "j", "k", "l", "m", "n", "o",
      "p", "q", "r", "s", "t", "u", "v", "w", "x", "y", "z">>

LowerChar(ch) ==
    IF \E i \in 1..26 : UpperLetters[i] = ch
    THEN LowerLetters[CHOOSE i \in 1..26 : UpperLetters[i] = ch]
    ELSE ch

\* str.lower()
Lower(s) == [i \in 1..Len(s) |-> LowerChar(s[i])]

UpperChar(ch) ==
    IF \E i \in 1..26 : LowerLetters[i] = ch
    THEN UpperLetters[CHOOSE i \in 1..26 : LowerLetters[i] = ch]
    ELSE ch

IsLetter(ch) == \E i \in 1..26 : ch \in {LowerLetters[i], UpperLetters[i]}

\* str.title(): a letter that follows no letter is put in upper case, every other
\* letter in lower case.
Title(s) ==
    [i \in 1..Len(s) |->
        IF i = 1 \/ ~IsLetter(s[i - 1]) THEN UpperChar(s[i]) ELSE LowerChar(s[i])]

StartsWith(s, prefix) ==
    Len(prefix) <= Len(s) /\ SubSeq(s, 1, Len(prefix)) = prefix

EndsWith(s, suffix) ==
    Len(suffix) <= Len(s) /\ SubSeq(s, Len(s) - Len(suffix) + 1, Len(s)) = suffix

\* _looks_like_yes_no_question without the lower-casing
LooksLikeYesNoQuestionCased(question) ==
    LET normalized == Strip(question)
    IN /\ EndsWith(normalized, <<"?">>)
       /\ \E prefix \in _YES_NO_PREFIXES : StartsWith(normalized, prefix)

\* _looks_like_yes_no_question
LooksLikeYesNoQuestion(question) ==
    LET normalized == Lower(Strip(question))
    IN /\ EndsWith(normalized, <<"?">>)
       /\ \E prefix \in _YES_NO_PREFIXES : StartsWith(normalized, prefix)

\* not isinstance(v, str) or not v.strip()
BlankOrNonStr(v) == ~v.is_str \/ Strip(v.text) = <<>>

\* The checks on one item of the list, in the order of the code, seen_ids being
\* the ids of the items before it: the reason of the ValueError raised, or
\* NoReason when the item passes.
NoReason == "none"

ItemError(item, seen_ids) ==
    IF ~item.is_dict THEN "expected dict"
    ELSE IF \E key \in EVAL_QUESTION_KEYS : key \notin DOMAIN item.fields
         THEN "missing required key"
    ELSE IF (DOMAIN item.fields) \ EVAL_QUESTION_KEYS # {} THEN "unexpected keys"
    ELSE IF BlankOrNonStr(item.fields["id"]) THEN "'id' must be a non-empty string"
    ELSE IF BlankOrNonStr(item.fields["category"])
         THEN "'category' must be a non-empty string"
    ELSE IF BlankOrNonStr(item.fields["question"])
         THEN "'question' must be a non-empty string"
    ELSE IF ~LooksLikeYesNoQuestion(item.fields["question"].text)
         THEN "'question' must be a yes/no question"
    ELSE IF item.fields["id"].text \in seen_ids THEN "duplicate id"
    ELSE NoReason

\* The outcome of validate_eval_questions: the list returned, or the ValueError
\* raised, with the index its message names (-1 when it names none), its reason
\* and, for a duplicate, the id it quotes.
Returned(result) ==
    [raised |-> FALSE, index |-> -1, reason |-> NoReason, id |-> <<>>, result |-> result]

RaisedValueError(index, reason, id) ==
    [raised |-> TRUE, index |-> index, reason |-> reason, id |-> id, result |-> <<>>]

\* {"id": id_val, "category": cat_val, "question": q_val}
ResultItem(item) ==
    [key \in EVAL_QUESTION_KEYS |-> item.fields[key].text]

\* The loop over the items from the i-th on (1-based here, enumerate's index is
\* i - 1), with the ids seen and the result built so far.
RECURSIVE ValidateFrom(_, _, _, _)
ValidateFrom(items, i, seen_ids, result) ==
    IF i > Len(items) THEN Returned(result)
    ELSE LET reason == ItemError(items[i], seen_ids)
         IN IF reason # NoReason
            THEN RaisedValueError(i - 1, reason,
                    IF reason = "duplicate id" THEN items[i].fields["id"].text ELSE <<>>)
            ELSE ValidateFrom(items, i + 1,
                    seen_ids \cup {items[i].fields["id"].text},
                    Append(result, ResultItem(items[i])))

\* validate_eval_questions(raw)
ValidateEvalQuestions(raw) ==
    IF ~raw.is_list THEN RaisedValueError(-1, "must be a list", <<>>)
    ELSE IF Len(raw.items) = 0
         THEN RaisedValueError(-1, "must contain at least one question", <<>>)
    ELSE ValidateFrom(raw.items, 1, {}, <<>>)

\* validate_eval_questions(raw) raises ValueError
ValidateEvalQuestionsRaises(raw) == ValidateEvalQuestions(raw).raised

\* "eval_questions" in spec and spec["eval_questions"] is not None
HasEvalQuestions(spec) ==
    "eval_questions" \in DOMAIN spec /\ spec["eval_questions"] # None

\* ---- eval_questions_to_markdown (eval_questions.py)
\* The keys of by_category in the order of their insertion: the categories of the
\* questions, each at its first occurrence.
RECURSIVE CategoriesFrom(_, _, _)
CategoriesFrom(questions, i, found) ==
    IF i > Len(questions) THEN found
    ELSE CategoriesFrom(questions, i + 1,
            IF \E k \in 1..Len(found) : found[k] = questions[i]["category"]
            THEN found
            ELSE Append(found, questions[i]["category"]))

\* The "- **id**: question" lines of the questions of one category, in order
RECURSIVE QuestionLines(_, _, _)
QuestionLines(questions, category, i) ==
    IF i > Len(questions) THEN <<>>
    ELSE (IF questions[i]["category"] = category
          THEN <<"- **">> \o questions[i]["id"] \o <<"**: ">>
                   \o questions[i]["question"] \o <<"\n">>
          ELSE <<>>) \o QuestionLines(questions, category, i + 1)

RECURSIVE CategoryParts(_, _, _)
CategoryParts(questions, categories, k) ==
    IF k > Len(categories) THEN <<>>
    ELSE <<"## ">> \o Title(Replace(categories[k], "_", " ")) \o <<"\n\n">>
            \o QuestionLines(questions, categories[k], 1) \o <<"\n">>
            \o CategoryParts(questions, categories, k + 1)

\* eval_questions_to_markdown(questions); the fixed parts are one token each
EvalQuestionsToMarkdown(questions) ==
    <<"# Evaluation Criteria\n\nUse these yes/no questions to evaluate the output.\n">>
        \o CategoryParts(questions, CategoriesFrom(questions, 1, <<>>), 1)
        \o <<"\n## Pass Condition\n\n- Weighted score >= 0.80">>

\* ---- normalize_spec (swarm_orchestrator.py)
\* A JSON value under input_data, emails or data: null, a number, an object
\* (its members in order) or an array (its elements in order, under the key of
\* their index).
JsonNull == [kind |-> "null", items |-> <<>>, num |-> 0]

JsonNumber(n) == [kind |-> "number", items |-> <<>>, num |-> n]

Member(key, value) == [key |-> key, value |-> value]

JsonObject(members) == [kind |-> "dict", items |-> members, num |-> 0]

JsonArray(elements) ==
    [kind |-> "list",
     items |-> [i \in 1..Len(elements) |-> Member(Str(i - 1), elements[i])],
     num |-> 0]

\* Python truthiness of spec.get(key) for such a value: the key is there, and the
\* value is neither None, nor 0, nor an empty dict or list
JsonTruthy(o) ==
    /\ o # None
    /\ The(o).kind # "null"
    /\ The(o).kind = "number" => The(o).num # 0
    /\ The(o).kind \in {"dict", "list"} => The(o).items # <<>>

\* spec.get("input_data") or spec.get("emails") or spec.get("data") or {}
SpecRawInput(spec) ==
    IF JsonTruthy(DictGet(spec, "input_data")) THEN spec["input_data"]
    ELSE IF JsonTruthy(DictGet(spec, "emails")) THEN spec["emails"]
    ELSE IF JsonTruthy(DictGet(spec, "data")) THEN spec["data"]
    ELSE JsonObject(<<>>)

\* {"items": raw_input} if isinstance(raw_input, list) else raw_input
SpecInputData(spec) ==
    LET raw_input == SpecRawInput(spec)
    IN IF raw_input.kind = "list"
       THEN JsonObject(<<Member(<<"i", "t", "e", "m", "s">>, raw_input)>>)
       ELSE raw_input

_DEFAULT_EVALUATION == <<"Evaluate the output for correctness, relevance, and quality.">>

\* spec.get("rubric") or spec.get("evaluation") or the rest: the two keys in the
\* other order
SpecEvaluationRubricFirst(spec, eval_questions) ==
    IF Truthy(DictGet(spec, "rubric")) THEN spec["rubric"]
    ELSE IF Truthy(DictGet(spec, "evaluation")) THEN spec["evaluation"]
    ELSE IF eval_questions # None /\ The(eval_questions) # <<>>
         THEN EvalQuestionsToMarkdown(The(eval_questions))
    ELSE _DEFAULT_EVALUATION

\* spec.get("evaluation") or spec.get("rubric")
\*   or (eval_questions_to_markdown(eval_questions) if eval_questions else None)
\*   or _DEFAULT_EVALUATION, eval_questions being the optional validated list
SpecEvaluation(spec, eval_questions) ==
    IF Truthy(DictGet(spec, "evaluation")) THEN spec["evaluation"]
    ELSE IF Truthy(DictGet(spec, "rubric")) THEN spec["rubric"]
    ELSE IF eval_questions # None /\ The(eval_questions) # <<>>
         THEN EvalQuestionsToMarkdown(The(eval_questions))
    ELSE _DEFAULT_EVALUATION

\* The dict normalize_spec returns: the three keys, and eval_questions when the
\* validated list is not None
NormalizedResult(prompt, input_data, evaluation, eval_questions) ==
    LET keys == {"prompt", "input_data", "evaluation"}
                    \cup (IF eval_questions # None THEN {"eval_questions"} ELSE {})
    IN [key \in keys |->
            CASE key = "prompt" -> prompt
              [] key = "input_data" -> input_data
              [] key = "evaluation" -> evaluation
              [] key = "eval_questions" -> The(eval_questions)]

\* normalize_spec(spec): the ValueError it raises (for the prompt, or the one of
\* validate_eval_questions), or the dict it returns
NormalizeSpec(spec) ==
    IF ~Truthy(SpecPrompt(spec))
    THEN [raised |-> TRUE, reason |-> "must contain 'prompt_template' or 'prompt'",
          result |-> <<>>]
    ELSE LET validated ==
                 IF HasEvalQuestions(spec)
                 THEN ValidateEvalQuestions(The(spec["eval_questions"]))
                 ELSE Returned(<<>>)
             eval_questions ==
                 IF HasEvalQuestions(spec) THEN Some(validated.result) ELSE None
         IN IF validated.raised
            THEN [raised |-> TRUE, reason |-> validated.reason, result |-> <<>>]
            ELSE [raised |-> FALSE, reason |-> NoReason,
                  result |-> NormalizedResult(The(SpecPrompt(spec)), SpecInputData(spec),
                                 SpecEvaluation(spec, eval_questions), eval_questions)]

\* normalize_spec raises ValueError: no truthy prompt, or eval_questions that
\* do not validate
NormalizeSpecRaises(spec) == NormalizeSpec(spec).raised

\* The specs a caller may pass to run_swarm: none, one with a prompt, one without,
\* one with a prompt and an empty list of eval_questions.
SpecInputs ==
    {None,
     Some([prompt |-> <<"P">>]),
     Some([prompt_template |-> <<>>, input_data |-> JsonObject(<<>>)]),
     Some([prompt |-> <<"P">>, eval_questions |-> Some(ListValue(<<>>))])}

\* Scenario resolution (run_swarm, first lines): normalize the spec when there is
\* one, otherwise read the built-in scenario files, which raises when they are
\* missing.
ScenarioRaises(spec, scenario_files) ==
    IF spec # None THEN NormalizeSpecRaises(The(spec)) ELSE ~scenario_files

\* What one collaborator stream may yield next: the done marker, or a chunk with
\* an optional content delta (possibly the empty string) and an optional usage.
\* a decoded JSON value: None for null, a bool, an int, a str, a dict (its
\* members in insertion order) or a list (its elements in order, without keys)
PNull == [kind |-> "null", items |-> <<>>, num |-> 0, text |-> <<>>]

PBool(b) == [kind |-> "bool", items |-> <<>>, num |-> IF b THEN 1 ELSE 0, text |-> <<>>]

PNum(n) == [kind |-> "number", items |-> <<>>, num |-> n, text |-> <<>>]

PStr(text) == [kind |-> "str", items |-> <<>>, num |-> 0, text |-> text]

PDict(members) == [kind |-> "dict", items |-> members, num |-> 0, text |-> <<>>]

PList(elements) ==
    [kind |-> "list", items |-> [i \in 1..Len(elements) |-> Member(<<>>, elements[i])],
     num |-> 0, text |-> <<>>]

\* bool(value)
PTruthy(v) ==
    /\ v.kind # "null"
    /\ v.kind \in {"bool", "number"} => v.num # 0
    /\ v.kind = "str" => v.text # <<>>
    /\ v.kind \in {"dict", "list"} => v.items # <<>>

Usage1 == PDict(<<Member(<<"prompt_tokens">>, PNum(1))>>)

Usage2 == PDict(<<Member(<<"prompt_tokens">>, PNum(2))>>)

\* a usage that is there and falsy
EmptyUsage == PDict(<<>>)

\* if usage:
UsageTruthy(usage) == usage # None /\ PTruthy(The(usage))

Chunk(content_delta, usage) ==
    [done |-> FALSE, content_delta |-> content_delta, usage |-> usage]

Done == [done |-> TRUE, content_delta |-> None, usage |-> None]

ChunkInputs ==
    {Done, Chunk(Some(<<"a">>), None), Chunk(Some(<<"b">>), Some(Usage1)),
     Chunk(Some(<<>>), Some(Usage2)), Chunk(Some(<<"a">>), Some(EmptyUsage))}

StreamErrors == {<<"boom">>}

\* ------------------------------------------------ fan-out: the limiter
\* asyncio.Semaphore: value, and the deque of waiters (task positions). A waiter's
\* future is pending while its task is "waiting" and done once it is "woken".
NewSemaphore(value) == [value |-> value, waiters |-> <<>>]
\* A variant that never reports the limiter as locked.
SemLockedNever(sem) == FALSE

\* locked(): no free slot, or somebody is queued (no waiter is ever cancelled)
SemLocked(sem) == sem.value = 0 \/ sem.waiters # <<>>

\* _wake_up_next on st = [sem, tasks]: hand the slot to the first waiter whose
\* future is still pending; the waiter stays in the deque until it resumes.
WakeUpNext(st) ==
    LET pending == {i \in 1..Len(st.sem.waiters) :
                        st.tasks[st.sem.waiters[i]].pc = "waiting"}
    IN IF pending = {} THEN st
       ELSE LET first == CHOOSE i \in pending : \A j \in pending : i <= j
                w == st.sem.waiters[first]
            IN [sem |-> [st.sem EXCEPT !.value = @ - 1],
                tasks |-> [st.tasks EXCEPT ![w].pc = "woken"]]

\* A variant that gives the slot back and wakes nobody.
SemReleaseNoWake(st) == [st EXCEPT !.sem.value = @ + 1]

\* release(): give the slot back, then wake the next waiter
SemRelease(st) == WakeUpNext([st EXCEPT !.sem.value = @ + 1])

\* acquire() by task t, up to its first suspension: take a free slot at once and
\* go on to open the stream, or queue behind the others.
SemAcquire(st, t) ==
    IF ~SemLocked(st.sem)
    THEN [sem |-> [st.sem EXCEPT !.value = @ - 1],
          tasks |-> [st.tasks EXCEPT ![t].pc = "streaming"]]
    ELSE [sem |-> [st.sem EXCEPT !.waiters = Append(@, t)],
          tasks |-> [st.tasks EXCEPT ![t].pc = "waiting"]]

\* acquire() by task t after its future was set: leave the deque, pass a spare
\* slot on, and go on to open the stream.
SemResume(st, t) ==
    LET keep(w) == w # t
        left == [st EXCEPT !.sem.waiters = SelectSeq(@, keep),
                           !.tasks[t].pc = "streaming"]
    IN IF left.sem.value > 0 THEN WakeUpNext(left) ELSE left

\* --------------------------------------------------- fan-out: one task
\* The coroutine _run_single_model(run_id, model, rep_index, ...) before its
\* first step. yielded counts the items its stream has produced so far, marks
\* those of them that were the done marker, and stream tells how the stream
\* finished ("live" until then, "ended" or "raised").
NewTask(model, rep_index) ==
    [model |-> model, rep_index |-> rep_index, pc |-> "created", yielded |-> 0,
     marks |-> 0, stream |-> "live", chunk_count |-> 0, accumulated_text |-> <<>>,
     usage_payload |-> None, result |-> None]

\* tasks = [... for rep in range(reps) for model in models]
TaskList(models, reps) ==
    [p \in 1..(Len(models) * reps) |->
        NewTask(models[((p - 1) % Len(models)) + 1], (p - 1) \div Len(models))]

TraceId(run_id, task) ==
    <<"trace-">> \o Str(run_id) \o <<"-", task.model.id, "-">> \o Str(task.rep_index)

TaskEvent(task, event_type, content, chunk_index, content_delta, usage) ==
    EventArgs("multi-model-runner", event_type, "execution", content,
              task.model.id, Some(task.model.id), Some(task.rep_index),
              chunk_index, content_delta, usage)

ModelRunStarted(task) ==
    TaskEvent(task, "model_run_started",
              <<"Starting ", task.model.name, " rep ">> \o Str(task.rep_index),
              None, None, None)

\* A variant that numbers the chunks from 0.
NarrationDeltaZeroBased(task, chunk_count, content_delta) ==
    TaskEvent(task, "narration_delta", content_delta,
              Some(chunk_count - 1), Some(content_delta), None)

NarrationDelta(task, chunk_count, content_delta) ==
    TaskEvent(task, "narration_delta", content_delta,
              Some(chunk_count), Some(content_delta), None)

ModelRunError(task, exc) ==
    TaskEvent(task, "model_run_error",
              <<"Error on ", task.model.name, " rep ">> \o Str(task.rep_index)
                  \o <<": ">> \o exc,
              None, None, None)

\* the wall-clock latency in the text is left symbolic
ModelRunCompleted(task) ==
    TaskEvent(task, "model_run_completed",
              <<"Completed ", task.model.name, " rep ">> \o Str(task.rep_index)
                  \o <<" (", "latency_ms", "ms, ">> \o Str(task.chunk_count)
                  \o <<" chunks)">>,
              None, None, task.usage_payload)

\* A variant that drops the text accumulated before the failure and reports the
\* task as completed.
ErrorResultAsCompleted(task, exc) ==
    [model_id |-> task.model.id, rep_index |-> task.rep_index,
     status |-> "completed", error |-> exc, output |-> <<>>, usage |-> None]

ErrorResult(task, exc) ==
    [model_id |-> task.model.id, rep_index |-> task.rep_index, status |-> "error",
     error |-> exc, output |-> task.accumulated_text, usage |-> None]

CompletedResult(run_id, task) ==
    [model_id |-> task.model.id, rep_index |-> task.rep_index,
     status |-> "completed", output |-> task.accumulated_text,
     usage |-> task.usage_payload, chunks |-> task.chunk_count,
     weave_trace_id |-> TraceId(run_id, task)]

\* A variant of the loop body that counts the done marker as a chunk.
AfterChunkCountsDone(task, chunk) ==
    [task EXCEPT
        !.chunk_count = @ + 1,
        !.accumulated_text =
            IF ~chunk.done /\ Truthy(chunk.content_delta)
            THEN @ \o The(chunk.content_delta) ELSE @,
        !.usage_payload = IF ~chunk.done /\ UsageTruthy(chunk.usage) THEN chunk.usage ELSE @]

\* The task's local variables after one item of the stream (loop body).
AfterChunk(task, chunk) ==
    IF chunk.done THEN task
    ELSE [task EXCEPT
            !.chunk_count = @ + 1,
            !.accumulated_text =
                IF Truthy(chunk.content_delta) THEN @ \o The(chunk.content_delta) ELSE @,
            !.usage_payload = IF UsageTruthy(chunk.usage) THEN chunk.usage ELSE @]

\* Whether the loop body emits narration_delta for this item.
EmitsDelta(chunk) == ~chunk.done /\ Truthy(chunk.content_delta)

\* A variant of the except block without its return: the code after the async
\* with runs as well.
OnStreamErrorFallsThrough(run, task, exc) ==
    LET failed == SetModelResult(AddRunEvent(run, ModelRunError(task, exc)),
                                 task.model.id, task.rep_index, ErrorResult(task, exc))
    IN SetModelResult(AddRunEvent(failed, ModelRunCompleted(task)),
                      task.model.id, task.rep_index, CompletedResult(run.run_id, task))

\* The run after the except block of task `task`: model_run_error and the
\* error Result.
OnStreamError(run, task, exc) ==
    SetModelResult(AddRunEvent(run, ModelRunError(task, exc)),
                   task.model.id, task.rep_index, ErrorResult(task, exc))

\* The run after the code that follows the async with: model_run_completed and
\* the completed Result.
OnStreamEnd(run, task) ==
    SetModelResult(AddRunEvent(run, ModelRunCompleted(task)),
                   task.model.id, task.rep_index, CompletedResult(run.run_id, task))

\* ------------------------------------------------ fan-out: run_swarm
RunStarted(run_id, models, reps) ==
    EventArgs("swarm", "run_started", "bootstrap",
              <<"Swarm started: ">> \o Str(Len(models)) \o <<" models x ">>
                  \o Str(reps) \o <<" reps = ">> \o Str(Len(models) * reps)
                  \o <<" tasks">>,
              "swarm", None, None, None, None, None)

RunCompleted(completed, total_tasks, errored) ==
    EventArgs("swarm", "run_completed", "done",
              <<"Swarm finished: ">> \o Str(completed) \o <<"/">> \o Str(total_tasks)
                  \o <<" succeeded, ">> \o Str(errored) \o <<" errors">>,
              "swarm", None, None, None, None, None)

\* results of asyncio.gather(*tasks, return_exceptions=True): the return values
\* of the tasks, in task order (every task has returned when gather resolves)
Gathered(ts) ==
    LET hasReturned(t) == t.result # None
        returned == SelectSeq(ts, hasReturned)
    IN [p \in 1..Len(returned) |-> The(returned[p].result)]

\* A variant that resolves as soon as one awaitable has finished.
GatherReadyFirst(ts) == \E p \in 1..Len(ts) : ts[p].pc = "returned"

\* gather resolves once every awaitable it was given has finished
GatherReady(ts) == \A p \in 1..Len(ts) : ts[p].pc = "returned"

\* A variant that counts every collected entry.
CountCompletedAll(collected) == Len(collected)

\* completed = sum(1 for r in collected if r.get("status") == "completed")
CountCompleted(collected) ==
    Cardinality({p \in 1..Len(collected) : collected[p].status = "completed"})

\* run_swarm from the return of gather to its own return: count, append
\* run_completed, mark the run complete.
Conclude(run, collected, total_tasks) ==
    LET completed == CountCompleted(collected)
        errored == total_tasks - completed
    IN SetRunComplete(AddRunEvent(run, RunCompleted(completed, total_tasks, errored)))

\* -------------------------------------------------------------- actions
RunIds == 1..Len(runs)

TaskIds(r) == 1..Len(tasks[r])

\* A variant with one limiter for the whole process: a run gets the slots the
\* tasks of the other runs leave free.
RunLimiterShared ==
    NewSemaphore(_MAX_CONCURRENCY
                 - Cardinality({rp \in UNION {{<<r, p>> : p \in TaskIds(r)} : r \in RunIds} :
                                    tasks[rp[1]][rp[2]].pc \in {"streaming", "woken"}}))

\* semaphore = asyncio.Semaphore(_MAX_CONCURRENCY), made anew by each run_swarm
RunLimiter == NewSemaphore(_MAX_CONCURRENCY)

\* A caller creates a session and a run and schedules run_swarm on the loop
\* (start_swarm_run; scripts/test_e2e.py main). The model list, the repetition
\* count and the spec are the call's inputs; the spec argument is dropped from the
\* state once run_swarm has resolved the scenario from it.
LaunchModels(models, reps, spec) ==
    /\ Len(runs) < env.maxRuns
    /\ env.overlap \/ \A r \in RunIds : swarm[r].pc \in {"done", "raised", "idle"}
    /\ Len(models) * reps >= env.minTasks
    /\ Len(models) * reps <= env.maxTasks
    /\ LET session_id == FreshId(sessions)
           run_id == FreshId(runs)
       IN /\ sessions' = Append(sessions, NewSession(session_id))
          /\ runs' = Append(runs, NewRun(run_id, session_id))
          /\ swarm' = Append(swarm, [pc |-> "scheduled", models |-> models,
                                     reps |-> reps, spec |-> spec,
                                     sem |-> NewSemaphore(0), collected |-> <<>>])
          /\ tasks' = Append(tasks, <<>>)
    /\ UNCHANGED <<handlers, reader, query, env, calls, disk, applied, chats>>

\* The same with the first k models of the pool for the list
LaunchRun(k, reps, spec) == LaunchModels(Models(k), reps, spec)

\* A variant that resolves the scenario after run_started has been appended.
RunSwarmAbortsLate(r) ==
    /\ swarm[r].pc = "scheduled"
    /\ \E scenario_files \in BOOLEAN : ScenarioRaises(swarm[r].spec, scenario_files)
    /\ swarm' = [swarm EXCEPT ![r].pc = "raised"]
    /\ runs' = [runs EXCEPT ![r] =
                    AddRunEvent(@, RunStarted(r, swarm[r].models, swarm[r].reps))]
    /\ UNCHANGED <<sessions, tasks, handlers, reader, query, env, calls, disk, applied, chats>>

\* run_swarm up to its first suspension: scenario resolution failed and the
\* exception leaves the coroutine.
RunSwarmAborts(r) ==
    /\ swarm[r].pc = "scheduled"
    /\ \E scenario_files \in BOOLEAN : ScenarioRaises(swarm[r].spec, scenario_files)
    /\ swarm' = [swarm EXCEPT ![r].pc = "raised"]
    /\ UNCHANGED <<sessions, runs, tasks, handlers, reader, query, env, calls, disk, applied, chats>>

\* run_swarm up to its first suspension: scenario, limiter, run_started, the task
\* list, and the await of gather. With no task at all gather's future is already
\* resolved, the await does not suspend and run_swarm runs through to its return.
RunSwarmStarts(r) ==
    /\ swarm[r].pc = "scheduled"
    /\ \E scenario_files \in BOOLEAN : ~ScenarioRaises(swarm[r].spec, scenario_files)
    /\ LET sw == swarm[r]
           total_tasks == Len(sw.models) * sw.reps
           started == AddRunEvent(runs[r], RunStarted(r, sw.models, sw.reps))
           ts == TaskList(sw.models, sw.reps)
       IN /\ tasks' = [tasks EXCEPT ![r] = ts]
          /\ IF total_tasks = 0
             THEN /\ runs' = [runs EXCEPT ![r] = Conclude(started, <<>>, total_tasks)]
                  /\ swarm' = [swarm EXCEPT ![r].pc = "done", ![r].spec = None,
                                            ![r].sem = RunLimiter]
             ELSE /\ runs' = [runs EXCEPT ![r] = started]
                  /\ swarm' = [swarm EXCEPT ![r].pc = "gather", ![r].spec = None,
                                            ![r].sem = RunLimiter]
    /\ UNCHANGED <<sessions, handlers, reader, query, env, calls, disk, applied, chats>>

\* The event loop runs the gathered tasks' first steps in the order gather
\* scheduled them (the ready queue is FIFO): task p is next when every task
\* before it has taken its first step.
NextToStart(ts, p) ==
    /\ ts[p].pc = "created"
    /\ \A u \in 1..(p - 1) : ts[u].pc # "created"

\* _run_single_model up to its first suspension: model_run_started, then the
\* limiter: a free slot is taken and the stream is opened, otherwise the task
\* waits in the limiter's queue.
TaskStarts(r, p) ==
    /\ swarm[r].pc = "gather"
    /\ NextToStart(tasks[r], p)
    /\ LET st == SemAcquire([sem |-> swarm[r].sem, tasks |-> tasks[r]], p)
       IN /\ runs' = [runs EXCEPT ![r] = AddRunEvent(@, ModelRunStarted(tasks[r][p]))]
          /\ swarm' = [swarm EXCEPT ![r].sem = st.sem]
          /\ tasks' = [tasks EXCEPT ![r] = st.tasks]
    /\ UNCHANGED <<sessions, handlers, reader, query, env, calls, disk, applied, chats>>

\* A task whose limiter future was set runs again: it now holds the slot and
\* opens its stream.
TaskResumes(r, p) ==
    /\ tasks[r][p].pc = "woken"
    /\ LET st == SemResume([sem |-> swarm[r].sem, tasks |-> tasks[r]], p)
       IN /\ swarm' = [swarm EXCEPT ![r].sem = st.sem]
          /\ tasks' = [tasks EXCEPT ![r] = st.tasks]
    /\ UNCHANGED <<sessions, runs, handlers, reader, query, env, calls, disk, applied, chats>>

\* When task p's stream may deliver. A stream that suspends before its first
\* item (a network stream) delivers only after the loop has run every first step
\* gather scheduled; an eager stream (a stub that never suspends) may deliver at
\* once. A serial collaborator serves the open streams one at a time, oldest
\* first.
CanDeliver(r, p) ==
    /\ tasks[r][p].pc = "streaming"
    /\ env.eager \/ \A u \in TaskIds(r) : tasks[r][u].pc # "created"
    /\ env.serial => \A u \in 1..(p - 1) : tasks[r][u].pc # "streaming"

\* items all streams of run r have yielded so far
Yielded(ts) ==
    LET RECURSIVE Sum(_)
        Sum(n) == IF n = 0 THEN 0 ELSE ts[n].yielded + Sum(n - 1)
    IN Sum(Len(ts))

\* streams of run r that have raised so far
Raised(ts) == Cardinality({u \in 1..Len(ts) : ts[u].stream = "raised"})

\* One item arrives on task p's stream: the body of the async for.
StreamYields(r, p, chunk) ==
    /\ CanDeliver(r, p)
    /\ Yielded(tasks[r]) < env.maxChunks
    /\ LET task == AfterChunk(tasks[r][p], chunk)
       IN /\ tasks' = [tasks EXCEPT ![r][p] =
                          [task EXCEPT !.yielded = @ + 1,
                                       !.marks = IF chunk.done THEN @ + 1 ELSE @]]
          /\ runs' = IF EmitsDelta(chunk)
                     THEN [runs EXCEPT ![r] =
                              AddRunEvent(@, NarrationDelta(task, task.chunk_count,
                                                            The(chunk.content_delta)))]
                     ELSE runs
    /\ UNCHANGED <<sessions, swarm, handlers, reader, query, env, calls, disk, applied, chats>>

\* Task p's stream is exhausted: the slot is released on leaving the async with,
\* then model_run_completed, the Result, and the return.
StreamEnds(r, p) ==
    /\ CanDeliver(r, p)
    /\ LET task == tasks[r][p]
           returned == [tasks[r] EXCEPT ![p].pc = "returned", ![p].stream = "ended",
                                        ![p].result = Some(CompletedResult(r, task))]
           st == SemRelease([sem |-> swarm[r].sem, tasks |-> returned])
       IN /\ runs' = [runs EXCEPT ![r] = OnStreamEnd(@, task)]
          /\ swarm' = [swarm EXCEPT ![r].sem = st.sem]
          /\ tasks' = [tasks EXCEPT ![r] = st.tasks]
    /\ UNCHANGED <<sessions, handlers, reader, query, env, calls, disk, applied, chats>>

\* A variant in which the failing task leaves without giving its slot back.
StreamRaisesKeepsSlot(r, p, exc) ==
    /\ CanDeliver(r, p)
    /\ Raised(tasks[r]) < env.maxRaises
    /\ LET task == tasks[r][p]
       IN /\ runs' = [runs EXCEPT ![r] = OnStreamError(@, task, exc)]
          /\ tasks' = [tasks EXCEPT ![r][p].pc = "returned", ![r][p].stream = "raised",
                                    ![r][p].result = Some(ErrorResult(task, exc))]
    /\ UNCHANGED <<sessions, swarm, handlers, reader, query, env, calls, disk, applied, chats>>

\* Task p's stream raises: model_run_error, the error Result, the return from
\* inside the async with (which releases the slot).
StreamRaises(r, p, exc) ==
    /\ CanDeliver(r, p)
    /\ Raised(tasks[r]) < env.maxRaises
    /\ LET task == tasks[r][p]
           returned == [tasks[r] EXCEPT ![p].pc = "returned", ![p].stream = "raised",
                                        ![p].result = Some(ErrorResult(task, exc))]
           st == SemRelease([sem |-> swarm[r].sem, tasks |-> returned])
       IN /\ runs' = [runs EXCEPT ![r] = OnStreamError(@, task, exc)]
          /\ swarm' = [swarm EXCEPT ![r].sem = st.sem]
          /\ tasks' = [tasks EXCEPT ![r] = st.tasks]
    /\ UNCHANGED <<sessions, handlers, reader, query, env, calls, disk, applied, chats>>

\* gather has every result: run_swarm runs from there to its return.
RunSwarmConcludes(r) ==
    /\ swarm[r].pc = "gather"
    /\ GatherReady(tasks[r])
    /\ LET collected == Gathered(tasks[r])
       IN /\ runs' = [runs EXCEPT ![r] =
                        Conclude(@, collected, Len(swarm[r].models) * swarm[r].reps)]
          /\ swarm' = [swarm EXCEPT ![r].pc = "done", ![r].collected = collected]
    /\ UNCHANGED <<sessions, tasks, handlers, reader, query, env, calls, disk, applied, chats>>

\* ------------------------------------------------------------ observers
\* RunEvent(**event): the response model keeps these fields and drops the rest
\* (model_id and rep_index among them).
RunEvent(e) ==
    [event_id |-> e.event_id, cursor |-> e.cursor, run_id |-> e.run_id,
     session_id |-> e.session_id, agent_id |-> e.agent_id,
     event_type |-> e.event_type, phase |-> e.phase, content |-> e.content,
     model |-> e.model, chunk_index |-> e.chunk_index,
     content_delta |-> e.content_delta, usage |-> e.usage]

\* A variant that reports the first returned event's cursor.
PageNextCursorFirst(response_events, cursor) ==
    IF response_events # <<>> THEN Some(response_events[1].cursor) ELSE cursor

\* next_cursor of get_run_events: the last returned event's cursor, or the
\* request's cursor when the page is empty.
PageNextCursor(response_events, cursor) ==
    IF response_events # <<>>
    THEN Some(response_events[Len(response_events)].cursor)
    ELSE cursor

\* A client pages through GET /runs/{run_id}/events of run r: it sends the
\* next_cursor of its previous response (none the first time) and keeps what it
\* receives.
ReaderPolls(r) ==
    /\ reader.run_id \in {None, Some(r)}
    /\ LET events == GetEvents(runs[r], reader.cursor, None)
           response_events == [i \in 1..Len(events) |-> RunEvent(events[i])]
       IN reader' = [run_id |-> Some(r),
                     cursor |-> PageNextCursor(response_events, reader.cursor),
                     got |-> reader.got \o response_events]
    /\ UNCHANGED <<sessions, runs, swarm, tasks, handlers, query, env, calls, disk, applied, chats>>

\* cursor strings a caller may send: decimal numbers, padded, signed, blank-
\* wrapped ones or ones with an underscore between digits, and text int() rejects
QueryCursors ==
    {None, Some(<<"0">>), Some(<<"1">>), Some(<<"2">>), Some(<<"4">>),
     Some(<<"0", "3">>), Some(<<"+", "1">>), Some(<<"-", "1">>),
     Some(<<" ", "2", " ">>), Some(<<"1", "0">>), Some(<<"x">>), Some(<<>>),
     Some(<<"0", "_", "1">>), Some(<<"1", "_", "0">>), Some(<<"1", "_">>)}

QueryModels == {None, Some("v/m1"), Some("v/m2"), Some("swarm")}

NoQuery ==
    [run_id |-> 0, cursor |-> None, model_id |-> None, raised |-> FALSE,
     result |-> <<>>]

\* One call of runtime.get_events(run_id, cursor, model_id) on run r, with what
\* it returned; int(cursor) raising ValueError leaves no result. The call is
\* synchronous: its caller has the result before anything else runs.
QueryEvents(r, cursor, model_id) ==
    /\ query = NoQuery
    /\ query' = IF cursor # None /\ ~IntParses(The(cursor))
                THEN [run_id |-> r, cursor |-> cursor, model_id |-> model_id,
                      raised |-> TRUE, result |-> <<>>]
                ELSE [run_id |-> r, cursor |-> cursor, model_id |-> model_id,
                      raised |-> FALSE,
                      result |-> GetEvents(runs[r], cursor, model_id)]
    /\ UNCHANGED <<sessions, runs, swarm, tasks, handlers, reader, env, calls, disk, applied, chats>>

\* The caller of get_events is done with the result.
QueryReturns ==
    /\ query # NoQuery
    /\ query' = NoQuery
    /\ UNCHANGED <<sessions, runs, swarm, tasks, handlers, reader, env, calls, disk, applied, chats>>

\* GET /runs/{run_id}/stream on a known run: the handler takes the run's queue;
\* its generator has not run yet.
HandlerOpens(r) ==
    /\ Len(handlers) < env.maxHandlers
    /\ handlers' = Append(handlers, [run_id |-> r, pc |-> "reading", frames |-> <<>>])
    /\ UNCHANGED <<sessions, runs, swarm, tasks, reader, query, env, calls, disk, applied, chats>>

\* A variant that also stops, without a frame, on the run_completed event.
HandlerTakesEager(handler, item) ==
    IF IsSentinel(item) \/ item.event_type = "run_completed"
    THEN [handler EXCEPT !.pc = "closed"]
    ELSE [handler EXCEPT !.frames = Append(@, ToSseBlock(item))]

\* The handler after queue.get() returned item: stop on the sentinel, otherwise
\* emit the item's frame.
HandlerTakes(handler, item) ==
    IF IsSentinel(item) THEN [handler EXCEPT !.pc = "closed"]
    ELSE [handler EXCEPT !.frames = Append(@, ToSseBlock(item))]

\* One turn of event_stream's loop: await queue.get() returns only when the
\* queue holds an item.
HandlerReads(h) ==
    /\ handlers[h].pc = "reading"
    /\ LET r == handlers[h].run_id
       IN /\ ~QueueEmpty(runs[r].queue)
          /\ handlers' = [handlers EXCEPT ![h] = HandlerTakes(@, QueueFront(runs[r].queue))]
          /\ runs' = [runs EXCEPT ![r].queue = QueueGet(@)]
    /\ UNCHANGED <<sessions, swarm, tasks, reader, query, env, calls, disk, applied, chats>>

\* ------------------------------------------------- calls on the runtime
\* One entry of the log of outside calls: the method, the id it was given, and
\* whether it raised.
Call(op, id, raised) ==
    [op |-> op, id |-> id, raised |-> raised, model_id |-> "", rep_index |-> 0,
     result |-> None, session |-> None, spec |-> None]

\* A run that exists in the registry with no run_swarm scheduled for it.
IdleSwarm ==
    [pc |-> "idle", models |-> <<>>, reps |-> 0, spec |-> None,
     sem |-> NewSemaphore(0), collected |-> <<>>]

\* ids a caller may pass: those of the registry and the next, unknown one
SessionIdInputs == 1..(env.maxSessions + 1)

RunIdInputs == 1..(env.maxRuns + 1)

\* keys and results a caller may pass to set_model_result
KeyInputs == {<<"v/m1", 0>>, <<"v/m1", 1>>, <<"v/m2", 0>>}

ResultInputs ==
    {[status |-> "completed", output |-> <<"a">>],
     [status |-> "error", output |-> <<>>]}

\* an event as a caller other than run_swarm may append it
OutsideEvent ==
    EventArgs("tester", "note", "execution", <<"n">>, "v/m1", Some("v/m1"),
              Some(0), None, None, None)

CallCreateSession ==
    /\ Len(calls) < env.maxCalls
    /\ Len(sessions) < env.maxSessions
    /\ sessions' = Append(sessions, NewSession(FreshId(sessions)))
    /\ calls' = Append(calls, Call("create_session", FreshId(sessions), FALSE))
    /\ UNCHANGED <<runs, swarm, tasks, handlers, reader, query, env, disk, applied, chats>>

\* create_run(session_id) does not look the session up
CallCreateRun(session_id) ==
    /\ Len(calls) < env.maxCalls
    /\ Len(runs) < env.maxRuns
    /\ runs' = Append(runs, NewRun(FreshId(runs), session_id))
    /\ swarm' = Append(swarm, IdleSwarm)
    /\ tasks' = Append(tasks, <<>>)
    /\ calls' = Append(calls, Call("create_run", session_id, FALSE))
    /\ UNCHANGED <<sessions, handlers, reader, query, env, disk, applied, chats>>

CallGetSession(session_id) ==
    /\ Len(calls) < env.maxCalls
    /\ LET out == GetSession(sessions, session_id)
       IN /\ sessions' = out.sessions
          /\ calls' = Append(calls, Call("get_session", session_id, out.raised))
    /\ UNCHANGED <<runs, swarm, tasks, handlers, reader, query, env, disk, applied, chats>>

CallAddSessionMessage(session_id, role, content) ==
    /\ Len(calls) < env.maxCalls
    /\ LET out == AddSessionMessage(sessions, session_id, role, content)
       IN /\ sessions' = out.sessions
          /\ calls' = Append(calls, Call("add_session_message", session_id, out.raised))
    /\ UNCHANGED <<runs, swarm, tasks, handlers, reader, query, env, disk, applied, chats>>

CallAddRunEvent(run_id, a) ==
    /\ Len(calls) < env.maxCalls
    /\ LET out == RuntimeAddRunEvent(runs, run_id, a)
       IN /\ runs' = out.runs
          /\ calls' = Append(calls, Call("add_run_event", run_id, out.raised))
    /\ UNCHANGED <<sessions, swarm, tasks, handlers, reader, query, env, disk, applied, chats>>

CallSetModelResult(run_id, model_id, rep_index, result) ==
    /\ Len(calls) < env.maxCalls
    /\ LET out == RuntimeSetModelResult(runs, run_id, model_id, rep_index, result)
       IN /\ runs' = out.runs
          /\ calls' = Append(calls,
                [Call("set_model_result", run_id, out.raised) EXCEPT
                    !.model_id = model_id, !.rep_index = rep_index,
                    !.result = Some(result)])
    /\ UNCHANGED <<sessions, swarm, tasks, handlers, reader, query, env, disk, applied, chats>>

CallGetResults(run_id) ==
    /\ Len(calls) < env.maxCalls
    /\ LET out == RuntimeGetResults(runs, run_id)
       IN /\ runs' = out.runs
          /\ calls' = Append(calls, Call("get_results", run_id, out.raised))
    /\ UNCHANGED <<sessions, swarm, tasks, handlers, reader, query, env, disk, applied, chats>>

CallGetEvents(run_id, cursor) ==
    /\ Len(calls) < env.maxCalls
    /\ LET out == RuntimeGetEvents(runs, run_id, cursor)
       IN /\ runs' = out.runs
          /\ calls' = Append(calls, Call("get_events", run_id, out.raised))
    /\ UNCHANGED <<sessions, swarm, tasks, handlers, reader, query, env, disk, applied, chats>>

CallSetRunComplete(run_id) ==
    /\ Len(calls) < env.maxCalls
    /\ LET out == RuntimeSetRunComplete(runs, run_id)
       IN /\ runs' = out.runs
          /\ calls' = Append(calls, Call("set_run_complete", run_id, out.raised))
    /\ UNCHANGED <<sessions, swarm, tasks, handlers, reader, query, env, disk, applied, chats>>

\* write_sse_sample(run_id) from outside
CallWriteSseSample(run_id) ==
    /\ Len(calls) < env.maxCalls
    /\ LET out == RuntimeWriteSseSample(runs, disk, run_id)
       IN /\ runs' = out.runs
          /\ disk' = out.disk
          /\ calls' = Append(calls, Call("write_sse_sample", run_id, out.raised))
    /\ UNCHANGED <<sessions, swarm, tasks, handlers, reader, query, env, applied, chats>>

\* Files somebody else left in artifacts/sse before the program ran (an earlier
\* process, a test's fixture): Path("artifacts/sse/stale.txt").write_text("old"),
\* and a file that is not a .txt.
StaleDisk ==
    WriteText(WriteText(Mkdir(NewDisk, SseDir),
                        FilePath(SseDir, <<"stale", ".txt">>), <<"old">>),
              FilePath(SseDir, <<"notes", ".log">>), <<"old">>)

\* ------------------------------------------------- the result exporter
\* The characters of a model id of the pool ("v/m" and the model's number).
IdChars(model_id) ==
    IF \E k \in 1..Len(ModelPool) : ModelPool[k].id = model_id
    THEN <<"v", "/", "m">> \o Str(CHOOSE k \in 1..Len(ModelPool) : ModelPool[k].id = model_id)
    ELSE IF model_id = UnderscoreModel.id THEN <<"v", "_", "m">> \o Str(1)
    ELSE <<model_id>>

\* result.get(key, default)
GetOr(d, key, default) == IF key \in DOMAIN d THEN d[key] ELSE default

\* json.dumps(value, indent=2, default=str): the text is stood for by the value
\* it encodes (on these values the encoding is one-to-one)
JsonDumps(value) == [json |-> value]

RunsDir(run_id) == <<"artifacts", "runs">> \o Str(run_id)

\* f"{safe_name}_rep{rep_index}.json"
PerFileName(result) ==
    Replace(IdChars(GetOr(result, "model_id", "unknown")), "/", "_")
        \o <<"_rep">> \o Str(GetOr(result, "rep_index", 0)) \o <<".json">>

\* One entry of the summary; a field the result lacks is None (the wall-clock
\* latency is not part of the Results here, so latency_ms is None throughout).
SummaryEntry(result) ==
    [model_id |-> GetOr(result, "model_id", "unknown"),
     rep_index |-> GetOr(result, "rep_index", 0),
     status |-> DictGet(result, "status"),
     latency_ms |-> DictGet(result, "latency_ms"),
     chunks |-> DictGet(result, "chunks"),
     usage |-> GetOr(result, "usage", None),
     weave_trace_id |-> DictGet(result, "weave_trace_id"),
     error |-> DictGet(result, "error"),
     output_file |-> PerFileName(result)]

\* sum(1 for e in summary_entries if e["status"] == "completed")
CompletedEntries(entries) ==
    Cardinality({i \in 1..Len(entries) : entries[i].status = Some("completed")})

\* A variant that counts the entries whose status is error.
ErroredEntriesStrict(entries) ==
    Cardinality({i \in 1..Len(entries) : entries[i].status = Some("error")})

\* sum(1 for e in summary_entries if e["status"] != "completed")
ErroredEntries(entries) ==
    Cardinality({i \in 1..Len(entries) : entries[i].status # Some("completed")})

Summary(run_id, entries) ==
    [run_id |-> Str(run_id), total |-> Len(entries),
     completed |-> CompletedEntries(entries), errored |-> ErroredEntries(entries),
     results |-> entries]

\* The loop over results.items(): one file per entry, written in turn (a later
\* entry with the same file name replaces the earlier one's file).
RECURSIVE WritePerFiles(_, _, _)
WritePerFiles(d, dir, items) ==
    IF items = <<>> THEN d
    ELSE WritePerFiles(WriteText(d, FilePath(dir, PerFileName(Head(items))),
                                 JsonDumps(Head(items))),
                       dir, Tail(items))

\* export_run_results(run_id) on the registry rs and the disk d: the output
\* directory is made first, then get_results raises for an unknown run; else the
\* per-entry files and summary.json are written. The registry is only read.
ExportRunResults(rs, d, run_id) ==
    LET output_dir == RunsDir(run_id)
        made == Mkdir(d, output_dir)
    IN IF ~Known(rs, run_id) THEN [raised |-> TRUE, disk |-> made]
       ELSE LET items == ResultItems(rs[run_id])
                summary_entries == [i \in 1..Len(items) |-> SummaryEntry(items[i])]
                written == WritePerFiles(made, output_dir, items)
            IN [raised |-> FALSE,
                disk |-> WriteText(written, FilePath(output_dir, <<"summary", ".json">>),
                                   JsonDumps(Summary(run_id, summary_entries)))]

\* export_run_results(run_id) from outside; the call's entry keeps the result
\* map it read.
CallExportRunResults(run_id) ==
    /\ Len(calls) < env.maxCalls
    /\ LET out == ExportRunResults(runs, disk, run_id)
       IN /\ disk' = out.disk
          /\ calls' = Append(calls,
                [Call("export_run_results", run_id, out.raised) EXCEPT
                    !.result = IF out.raised THEN None
                               ELSE Some(GetResults(runs[run_id]))])
    /\ UNCHANGED <<sessions, runs, swarm, tasks, handlers, reader, query, env, applied, chats>>

\* ------------------------------------------------------------- routes
\* POST /planner/sessions
CreatePlannerSession ==
    /\ Len(sessions) < env.maxSessions
    /\ sessions' = Append(sessions, NewSession(FreshId(sessions)))
    /\ UNCHANGED <<runs, swarm, tasks, handlers, reader, query, env, calls, disk, applied, chats>>

\* What run_planner_chat may do: raise, or return with or without a draft_spec.
PlannerOutcomes ==
    {[raises |-> TRUE, draft_spec |-> None],
     [raises |-> FALSE, draft_spec |-> None],
     [raises |-> FALSE, draft_spec |-> Some([prompt |-> <<"P">>])],
     [raises |-> FALSE, draft_spec |-> Some([input_data |-> JsonObject(<<>>)])]}

\* _draft_spec_to_prompt; json.dumps of a spec without a prompt is one token
DraftSpecToPrompt(draft_spec) ==
    IF draft_spec = None \/ DOMAIN The(draft_spec) = {} THEN <<>>
    ELSE IF Truthy(SpecPrompt(The(draft_spec))) THEN The(SpecPrompt(The(draft_spec)))
    ELSE <<"json">>

\* POST /planner/sessions/{id}/messages on a known session (an unknown one is
\* answered 404 with nothing changed), up to its await: the user's message is
\* stored and the request waits for run_planner_chat.
PlannerSessionMessage(session_id) ==
    /\ Known(sessions, session_id)
    /\ Len(sessions[session_id].messages) < 2 * env.maxTurns
    /\ sessions' = AddSessionMessage(sessions, session_id, "user", <<"hi">>).sessions
    /\ chats' = Append(chats, session_id)
    /\ UNCHANGED <<runs, swarm, tasks, handlers, reader, query, env, calls, disk, applied>>

\* chats without its c-th request
WithoutChat(c) == SubSeq(chats, 1, c - 1) \o SubSeq(chats, c + 1, Len(chats))

\* run_planner_chat returns to the c-th waiting request, or raises in it: the
\* assistant's message, draft_prompt and ready_to_confirm are written when it
\* returns; when it raises the request is answered 500 and writes nothing more.
PlannerChatReturns(c, outcome) ==
    /\ c \in 1..Len(chats)
    /\ LET session_id == chats[c]
           answered == AddSessionMessage(sessions, session_id, "assistant", <<"ok">>).sessions
       IN sessions' =
            IF outcome.raises THEN sessions
            ELSE [answered EXCEPT
                    ![session_id].draft_prompt = DraftSpecToPrompt(outcome.draft_spec),
                    ![session_id].ready_to_confirm = (outcome.draft_spec # None)]
    /\ chats' = WithoutChat(c)
    /\ UNCHANGED <<runs, swarm, tasks, handlers, reader, query, env, calls, disk, applied>>

\* The spec start_swarm_run reads from the session the payload names: none
\* without a session id, none when the lookup raises, else session.get("draft_spec").
SessionSpec(ss, payload_session) ==
    IF payload_session = None THEN None
    ELSE IF ~Known(ss, The(payload_session)) THEN None
    ELSE DictGet(ss[The(payload_session)], "draft_spec")

\* POST /runs/start with k models and an optional session id: the spec is read
\* from the session, a session and a run are created, and run_swarm is scheduled
\* with the default repetition count.
StartSwarmRun(k, payload_session) ==
    /\ Len(runs) < env.maxRuns
    /\ k * DefaultReps <= env.maxTasks
    /\ LET spec == SessionSpec(sessions, payload_session)
           session_id == FreshId(sessions)
           run_id == FreshId(runs)
       IN /\ sessions' = Append(sessions, NewSession(session_id))
          /\ runs' = Append(runs, NewRun(run_id, session_id))
          /\ swarm' = Append(swarm, [pc |-> "scheduled", models |-> Models(k),
                                     reps |-> DefaultReps, spec |-> spec,
                                     sem |-> NewSemaphore(0), collected |-> <<>>])
          /\ tasks' = Append(tasks, <<>>)
          /\ calls' = Append(calls,
                [Call("start_swarm_run", run_id, FALSE) EXCEPT
                    !.session = payload_session, !.spec = spec])
    /\ UNCHANGED <<handlers, reader, query, env, disk, applied, chats>>

\* ---- confirmation of a session (routers/planner.py)
\* planner_session_confirm awaits run_sample_swarm(run_id), which planner.py
\* imports from swarm_orchestrator and which no file of the repository defines.
\* It is modelled on the specification: the run a session confirms is executed
\* by the fan-out (here one model, one repetition, the built-in scenario), and
\* the run's sample file is written once the fan-out is over.
SampleSwarm ==
    [pc |-> "scheduled", models |-> Models(1), reps |-> 1, spec |-> None,
     sem |-> NewSemaphore(0), collected |-> <<>>]

SampleSwarmFinish(rs, d, run_id) == RuntimeWriteSseSample(rs, d, run_id)

\* What the log of calls holds for a confirmation: the run created for it, and
\* the response once the handler has returned.
Confirmation(run_id, returned, status, sse_sample_path) ==
    [run_id |-> run_id, returned |-> returned, status |-> status,
     sse_sample_path |-> sse_sample_path]

\* POST /planner/sessions/{id}/confirm up to the await: 404 for an unknown session,
\* 400 for one that is not ready, otherwise a run of the session is created and
\* run_sample_swarm begins.
PlannerSessionConfirm(session_id) ==
    /\ Len(calls) < env.maxCalls
    /\ IF ~Known(sessions, session_id) \/ ~sessions[session_id].ready_to_confirm
       THEN /\ calls' = Append(calls,
                    [Call("planner_session_confirm", session_id, TRUE) EXCEPT
                        !.session = Some(session_id)])
            /\ UNCHANGED <<runs, swarm, tasks>>
       ELSE /\ Len(runs) < env.maxRuns
            /\ LET run_id == FreshId(runs)
               IN /\ runs' = Append(runs, NewRun(run_id, session_id))
                  /\ swarm' = Append(swarm, SampleSwarm)
                  /\ tasks' = Append(tasks, <<>>)
                  /\ calls' = Append(calls,
                        [Call("planner_session_confirm", session_id, FALSE) EXCEPT
                            !.session = Some(session_id),
                            !.result = Some(Confirmation(run_id, FALSE, "", <<>>))])
    /\ UNCHANGED <<sessions, handlers, reader, query, env, disk, applied, chats>>

\* The confirmation whose run is r has not returned yet.
AwaitsSampleSwarm(call, r) ==
    /\ call.op = "planner_session_confirm"
    /\ call.result # None
    /\ The(call.result).run_id = r
    /\ ~The(call.result).returned

\* The await of run_sample_swarm is over: when it raised, the handler fails; when
\* it returned, the response carries the run's status and sse_sample_path.
PlannerConfirmReturns(c) ==
    LET r == The(calls[c].result).run_id
    IN /\ calls[c].result # None
       /\ AwaitsSampleSwarm(calls[c], r)
       /\ swarm[r].pc \in {"done", "raised"}
       /\ IF swarm[r].pc = "raised"
          THEN /\ calls' = [calls EXCEPT
                              ![c].raised = TRUE,
                              ![c].result = Some(Confirmation(r, TRUE, "", <<>>))]
               /\ UNCHANGED <<runs, disk>>
          ELSE LET out == SampleSwarmFinish(runs, disk, r)
               IN /\ runs' = out.runs
                  /\ disk' = out.disk
                  /\ calls' = [calls EXCEPT
                                 ![c].result = Some(Confirmation(r, TRUE, out.runs[r].status,
                                                        out.runs[r].sse_sample_path))]
       /\ UNCHANGED <<sessions, swarm, tasks, handlers, reader, query, env, applied, chats>>

\* ------------------------------------------------------------ json.loads
\* A text is a sequence of characters; a word that stands inside a text as a
\* whole (choices, null, DONE) is one element of the sequence. What json.loads
\* returns is a decoded value (see PNull and the definitions after it): None
\* for null, a bool, an int, a str, a dict or a list.
\* d[key] = value while the object is built: a key that is there keeps its place
\* and takes the new value
PutMember(members, key, value) ==
    IF \E i \in 1..Len(members) : members[i].key = key
    THEN [i \in 1..Len(members) |->
             IF members[i].key = key THEN Member(key, value) ELSE members[i]]
    ELSE Append(members, Member(key, value))

\* d.get(key) of a dict, the key given as a text: None when the key is missing
PGet(d, key) ==
    IF \E i \in 1..Len(d.items) : d.items[i].key = key
    THEN d.items[CHOOSE i \in 1..Len(d.items) : d.items[i].key = key].value
    ELSE PNull

\* the whitespace of the JSON grammar
JsonWhitespace == {" ", "\t", "\n", "\r"}

\* the backspace character
Backspace == "BS"

\* the backtick
Backtick == "BT"

\* the characters that may follow a backslash inside a JSON string, and the
\* character each stands for (the \uXXXX form is not among the texts used)
JsonEscapes ==
    [c \in {"\"", "\\", "/", "b", "f", "n", "r", "t"} |->
        CASE c = "b" -> Backspace [] c = "f" -> "\f" [] c = "n" -> "\n"
          [] c = "r" -> "\r" [] c = "t" -> "\t" [] OTHER -> c]

\* characters a JSON string may not hold unescaped
JsonControl == {"\n", "\t", "\r", "\f", Backspace}

JsonLiterals == {"null", "true", "false"}

LiteralValue(word) ==
    IF word = "null" THEN PNull ELSE PBool(word = "true")

\* the outcome of one parsing step: the value and the position after it
Parsed(value, next) == [ok |-> TRUE, value |-> value, next |-> next]

NotParsed == [ok |-> FALSE, value |-> PNull, next |-> 0]

\* first position from i on that holds no whitespace (Len(s) + 1 when none)
RECURSIVE SkipWhitespace(_, _)
SkipWhitespace(s, i) ==
    IF i <= Len(s) /\ s[i] \in JsonWhitespace THEN SkipWhitespace(s, i + 1) ELSE i

\* the string whose opening quote is before position j, acc its characters so far
RECURSIVE ScanString(_, _, _)
ScanString(s, j, acc) ==
    IF j > Len(s) THEN NotParsed
    ELSE IF s[j] = "\"" THEN Parsed(PStr(acc), j + 1)
    ELSE IF s[j] = "\\"
         THEN IF j + 1 <= Len(s) /\ s[j + 1] \in DOMAIN JsonEscapes
              THEN ScanString(s, j + 2, Append(acc, JsonEscapes[s[j + 1]]))
              ELSE NotParsed
    ELSE IF s[j] \in JsonControl THEN NotParsed
    ELSE ScanString(s, j + 1, Append(acc, s[j]))

\* the end of the run of digits that starts at i
RECURSIVE DigitsEnd(_, _)
DigitsEnd(s, i) == IF i <= Len(s) /\ IsDigit(s[i]) THEN DigitsEnd(s, i + 1) ELSE i

\* an integer at i: an optional minus, then 0 or a run of digits that does not
\* start with 0 (fractions and exponents are not among the texts used)
ScanNumber(s, i) ==
    LET first == IF s[i] = "-" THEN i + 1 ELSE i
        last == IF first <= Len(s) /\ s[first] = "0" THEN first + 1
                ELSE DigitsEnd(s, first)
        n == DigitsToNat(SubSeq(s, first, last - 1))
    IN IF last = first THEN NotParsed
       ELSE Parsed(PNum(IF s[i] = "-" THEN 0 - n ELSE n), last)

RECURSIVE ScanValue(_, _), ScanMembers(_, _, _), ScanElements(_, _, _)
\* the value that starts at position i
ScanValue(s, i) ==
    IF i > Len(s) THEN NotParsed
    ELSE IF s[i] = "\"" THEN ScanString(s, i + 1, <<>>)
    ELSE IF s[i] = "{"
         THEN LET j == SkipWhitespace(s, i + 1)
              IN IF j <= Len(s) /\ s[j] = "}" THEN Parsed(PDict(<<>>), j + 1)
                 ELSE ScanMembers(s, j, <<>>)
    ELSE IF s[i] = "["
         THEN LET j == SkipWhitespace(s, i + 1)
              IN IF j <= Len(s) /\ s[j] = "]" THEN Parsed(PList(<<>>), j + 1)
                 ELSE ScanElements(s, j, <<>>)
    ELSE IF s[i] \in JsonLiterals THEN Parsed(LiteralValue(s[i]), i + 1)
    ELSE IF s[i] = "-" \/ IsDigit(s[i]) THEN ScanNumber(s, i)
    ELSE NotParsed

\* the members of an object from the key at position i on, acc those before it
ScanMembers(s, i, acc) ==
    IF i > Len(s) \/ s[i] # "\"" THEN NotParsed
    ELSE LET key == ScanString(s, i + 1, <<>>)
         IN IF ~key.ok THEN NotParsed
            ELSE LET colon == SkipWhitespace(s, key.next)
                 IN IF colon > Len(s) \/ s[colon] # ":" THEN NotParsed
                    ELSE LET value == ScanValue(s, SkipWhitespace(s, colon + 1))
                         IN IF ~value.ok THEN NotParsed
                            ELSE LET members == PutMember(acc, key.value.text, value.value)
                                     after == SkipWhitespace(s, value.next)
                                 IN IF after > Len(s) THEN NotParsed
                                    ELSE IF s[after] = "}"
                                         THEN Parsed(PDict(members), after + 1)
                                    ELSE IF s[after] = ","
                                         THEN ScanMembers(s, SkipWhitespace(s, after + 1),
                                                          members)
                                    ELSE NotParsed

\* the elements of an array from the value at position i on, acc those before it
ScanElements(s, i, acc) ==
    LET value == ScanValue(s, i)
    IN IF ~value.ok THEN NotParsed
       ELSE LET elements == Append(acc, value.value)
                after == SkipWhitespace(s, value.next)
            IN IF after > Len(s) THEN NotParsed
               ELSE IF s[after] = "]" THEN Parsed(PList(elements), after + 1)
               ELSE IF s[after] = ","
                    THEN ScanElements(s, SkipWhitespace(s, after + 1), elements)
               ELSE NotParsed

\* json.loads(text): one value with nothing but whitespace around it; ok is
\* FALSE where json.loads raises JSONDecodeError
JsonLoads(text) ==
    LET value == ScanValue(text, SkipWhitespace(text, 1))
    IN IF value.ok /\ SkipWhitespace(text, value.next) = Len(text) + 1
       THEN value ELSE NotParsed

\* ---- _parse_openrouter_sse_line (openrouter_client.py)
\* What a call leaves: nothing (None), the done marker, a chunk, or an exception.
LineOutcome(kind, error, content_delta, reasoning_details, usage, raw) ==
    [kind |-> kind, error |-> error, content_delta |-> content_delta,
     reasoning_details |-> reasoning_details, usage |-> usage, raw |-> raw]

LineDropped == LineOutcome("none", "", PNull, PNull, PNull, PNull)

LineDone == LineOutcome("done", "", PNull, PNull, PNull, PNull)

LineRaises(error) == LineOutcome("raised", error, PNull, PNull, PNull, PNull)

\* (payload.get("choices") or [{}])[0]: the exception it raises, "" when none
FirstChoiceError(choices) ==
    IF ~PTruthy(choices) \/ choices.kind \in {"list", "str"} THEN ""
    ELSE IF choices.kind = "dict" THEN "KeyError"
    ELSE "TypeError"

FirstChoice(choices) ==
    IF ~PTruthy(choices) THEN PDict(<<>>)
    ELSE IF choices.kind = "list" THEN choices.items[1].value
    ELSE PStr(<<choices.text[1]>>)

\* value or {}
OrEmptyDict(value) == IF PTruthy(value) THEN value ELSE PDict(<<>>)

\* The lines from the decoded payload to the return.
ChunkOfPayload(payload) ==
    IF payload.kind # "dict" THEN LineRaises("AttributeError")
    ELSE LET choices == PGet(payload, <<"choices">>)
         IN IF FirstChoiceError(choices) # "" THEN LineRaises(FirstChoiceError(choices))
            ELSE LET choice == FirstChoice(choices)
                 IN IF choice.kind # "dict" THEN LineRaises("AttributeError")
                    ELSE LET delta == OrEmptyDict(PGet(choice, <<"delta">>))
                             message == OrEmptyDict(PGet(choice, <<"message">>))
                         IN IF delta.kind # "dict" THEN LineRaises("AttributeError")
                            ELSE IF PTruthy(PGet(delta, <<"reasoning_details">>))
                                 THEN LineOutcome("chunk", "", PGet(delta, <<"content">>),
                                                  PGet(delta, <<"reasoning_details">>),
                                                  PGet(payload, <<"usage">>), payload)
                            ELSE IF message.kind # "dict" THEN LineRaises("AttributeError")
                            ELSE LineOutcome("chunk", "", PGet(delta, <<"content">>),
                                             IF PTruthy(PGet(message, <<"reasoning_details">>))
                                             THEN PGet(message, <<"reasoning_details">>)
                                             ELSE PList(<<>>),
                                             PGet(payload, <<"usage">>), payload)

ParseOpenrouterSseLine(line) ==
    LET stripped == Strip(line)
    IN IF stripped = <<>> \/ stripped[1] = ":" THEN LineDropped
       ELSE IF ~StartsWith(stripped, <<"data", ":">>) THEN LineDropped
       ELSE LET payload_text == Strip(SubSeq(stripped, 3, Len(stripped)))
            IN IF payload_text = <<"[", "DONE", "]">> THEN LineDone
               ELSE IF ~JsonLoads(payload_text).ok THEN LineDropped
               ELSE ChunkOfPayload(JsonLoads(payload_text).value)

\* ---- _try_extract_draft_spec (agents/planner_agent.py)
\* _extract_brace_block(text, start) from position i on, with the locals of the
\* loop: the text from start to the brace that closes the one at start, None
\* when the text ends first.
RECURSIVE BraceScan(_, _, _, _, _, _, _)
BraceScan(text, start, i, depth, in_string, escape, quote) ==
    IF i > Len(text) THEN None
    ELSE IF escape THEN BraceScan(text, start, i + 1, depth, in_string, FALSE, quote)
    ELSE IF in_string
         THEN IF text[i] = "\\"
              THEN BraceScan(text, start, i + 1, depth, TRUE, TRUE, quote)
              ELSE BraceScan(text, start, i + 1, depth, text[i] # quote, FALSE, quote)
    ELSE IF text[i] \in {"\"", "'"}
         THEN BraceScan(text, start, i + 1, depth, TRUE, FALSE, text[i])
    ELSE IF text[i] = "{"
         THEN BraceScan(text, start, i + 1, depth + 1, FALSE, FALSE, quote)
    ELSE IF text[i] = "}"
         THEN IF depth - 1 = 0 THEN Some(SubSeq(text, start, i))
              ELSE BraceScan(text, start, i + 1, depth - 1, FALSE, FALSE, quote)
    ELSE BraceScan(text, start, i + 1, depth, FALSE, FALSE, quote)

\* A variant that counts the braces inside quoted strings as well.
ExtractBraceBlockCountsQuoted(text, start) ==
    LET depthAt(i) ==
            Cardinality({j \in start..i : text[j] = "{"})
                - Cardinality({j \in start..i : text[j] = "}"})
        ends == {i \in start..Len(text) : text[i] = "}" /\ depthAt(i) = 0}
    IN IF ends = {} THEN None
       ELSE Some(SubSeq(text, start, CHOOSE i \in ends : \A j \in ends : i <= j))

ExtractBraceBlock(text, start) == BraceScan(text, start, start, 0, FALSE, FALSE, "")

\* first position from i on that holds no whitespace (Len(s) + 1 when none)
RECURSIVE SkipSpaces(_, _)
SkipSpaces(s, i) ==
    IF i <= Len(s) /\ s[i] \in Whitespace THEN SkipSpaces(s, i + 1) ELSE i

\* first position from i on that holds a newline (Len(s) + 1 when none)
RECURSIVE LineEnd(_, _)
LineEnd(s, i) == IF i <= Len(s) /\ s[i] # "\n" THEN LineEnd(s, i + 1) ELSE i

\* the positions where \s+// matches: whitespace, and // right after the run of
\* whitespace that starts there
CommentStarts(raw) ==
    {i \in 1..Len(raw) :
        /\ raw[i] \in Whitespace
        /\ SkipSpaces(raw, i) + 1 <= Len(raw)
        /\ raw[SkipSpaces(raw, i)] = "/"
        /\ raw[SkipSpaces(raw, i) + 1] = "/"}

\* re.sub(r"\s+//[^\n]*", "", raw): every match, leftmost first, is removed up
\* to the end of its line
RECURSIVE StripJsonComments(_)
StripJsonComments(raw) ==
    IF CommentStarts(raw) = {} THEN raw
    ELSE LET first == CHOOSE i \in CommentStarts(raw) : \A j \in CommentStarts(raw) : i <= j
             rest == LineEnd(raw, SkipSpaces(raw, first))
         IN SubSeq(raw, 1, first - 1) \o StripJsonComments(SubSeq(raw, rest, Len(raw)))

\* Where the pattern of the fence (three backticks, an optional json, optional
\* whitespace, an opening brace) matches at position i, the position of its brace;
\* 0 where it does not match.
FenceBraceAt(text, i) ==
    IF i + 2 <= Len(text) /\ text[i] = Backtick /\ text[i + 1] = Backtick /\ text[i + 2] = Backtick
    THEN LET word == IF i + 3 <= Len(text) /\ text[i + 3] = "json" THEN i + 4 ELSE i + 3
             brace == SkipSpaces(text, word)
         IN IF brace <= Len(text) /\ text[brace] = "{" THEN brace ELSE 0
    ELSE 0

\* fence.end() - 1 of re.search, 0 when there is no match
FenceBrace(text) ==
    LET matches == {i \in 1..Len(text) : FenceBraceAt(text, i) # 0}
    IN IF matches = {} THEN 0
       ELSE FenceBraceAt(text, CHOOSE i \in matches : \A j \in matches : i <= j)

\* text.find("{") + 1, 0 when there is none
FirstBrace(text) ==
    LET braces == {i \in 1..Len(text) : text[i] = "{"}
    IN IF braces = {} THEN 0 ELSE CHOOSE i \in braces : \A j \in braces : i <= j

\* One attempt: the block at start, cleaned and decoded; None when there is no
\* block or json.loads raises JSONDecodeError.
BlockSpec(text, start) ==
    IF start = 0 \/ ExtractBraceBlock(text, start) = None THEN None
    ELSE LET cleaned == StripJsonComments(The(ExtractBraceBlock(text, start)))
         IN IF JsonLoads(cleaned).ok THEN Some(JsonLoads(cleaned).value) ELSE None

TryExtractDraftSpec(text) ==
    IF BlockSpec(text, FenceBrace(text)) # None THEN BlockSpec(text, FenceBrace(text))
    ELSE BlockSpec(text, FirstBrace(text))

\* run_planner_chat's draft_spec for the assistant's text, and the
\* ready_to_confirm planner_session_message stores for it
PlannerExtraction(assistant_content) ==
    LET draft_spec == TryExtractDraftSpec(assistant_content)
    IN [draft_spec |-> draft_spec, ready_to_confirm |-> draft_spec # None]

\* ------------------------------------------------------ pure functions
\* A pure function is applied to an argument drawn at the start: applied holds the
\* function's name, the argument, and the outcome once the call has been made.
NoApplication == [fn |-> "none", arg |-> <<>>, done |-> FALSE, out |-> <<>>]

Application(fn, arg) == [fn |-> fn, arg |-> arg, done |-> FALSE, out |-> <<>>]

\* validate_eval_questions(raw)
ApplyValidateEvalQuestions ==
    /\ applied.fn = "validate_eval_questions"
    /\ ~applied.done
    /\ applied' = [applied EXCEPT !.done = TRUE, !.out = ValidateEvalQuestions(applied.arg)]
    /\ UNCHANGED <<sessions, runs, swarm, tasks, handlers, reader, query, env, calls, disk, chats>>

\* normalize_spec(spec)
ApplyNormalizeSpec ==
    /\ applied.fn = "normalize_spec"
    /\ ~applied.done
    /\ applied' = [applied EXCEPT !.done = TRUE, !.out = NormalizeSpec(applied.arg)]
    /\ UNCHANGED <<sessions, runs, swarm, tasks, handlers, reader, query, env, calls, disk, chats>>

\* _parse_openrouter_sse_line(line)
ApplyParseOpenrouterSseLine ==
    /\ applied.fn = "_parse_openrouter_sse_line"
    /\ ~applied.done
    /\ applied' = [applied EXCEPT !.done = TRUE, !.out = ParseOpenrouterSseLine(applied.arg)]
    /\ UNCHANGED <<sessions, runs, swarm, tasks, handlers, reader, query, env, calls, disk, chats>>

\* _try_extract_draft_spec(text), and what the route makes of its result
ApplyTryExtractDraftSpec ==
    /\ applied.fn = "_try_extract_draft_spec"
    /\ ~applied.done
    /\ applied' = [applied EXCEPT !.done = TRUE, !.out = PlannerExtraction(applied.arg)]
    /\ UNCHANGED <<sessions, runs, swarm, tasks, handlers, reader, query, env, calls, disk, chats>>

\* ------------------------------------------------------- specifications
SmallEnv ==
    [maxRuns |-> 1, minTasks |-> 0, maxTasks |-> MaxTasks, maxChunks |-> MaxChunks,
     maxRaises |-> MaxTasks, serial |-> FALSE, eager |-> TRUE,
     repCounts |-> 0..MaxTasks, specs |-> SpecInputs, chunks |-> ChunkInputs,
     maxHandlers |-> 0, maxSessions |-> 1, maxCalls |-> 0, maxTurns |-> 0,
     overlap |-> TRUE, disk |-> NewDisk, applied |-> NoApplication]

\* The saturated configuration: more tasks than the limiter has slots.
SaturatedEnv ==
    [maxRuns |-> 1, minTasks |-> _MAX_CONCURRENCY + 1,
     maxTasks |-> _MAX_CONCURRENCY + SatExtra, maxChunks |-> SatChunks,
     maxRaises |-> SatRaises, serial |-> TRUE, eager |-> FALSE,
     repCounts |-> {1}, specs |-> {None}, chunks |-> {Chunk(Some(<<"a">>), None)},
     maxHandlers |-> 0, maxSessions |-> 1, maxCalls |-> 0, maxTurns |-> 0,
     overlap |-> TRUE, disk |-> NewDisk, applied |-> NoApplication]

InitWith(e) ==
    /\ sessions = <<>>
    /\ runs = <<>>
    /\ swarm = <<>>
    /\ tasks = <<>>
    /\ handlers = <<>>
    /\ reader = [run_id |-> None, cursor |-> None, got |-> <<>>]
    /\ query = NoQuery
    /\ env = e
    /\ calls = <<>>
    /\ disk = e.disk
    /\ applied = e.applied
    /\ chats = <<>>

Init == InitWith(SmallEnv)

\* A caller launches a run.
Launching ==
    \E k \in 1..env.maxTasks, reps \in env.repCounts, spec \in env.specs :
        LaunchRun(k, reps, spec)

\* The steps of run_swarm and of its tasks, but for the resumption of a task that
\* waited for the limiter.
Running ==
    \/ \E r \in RunIds : RunSwarmAborts(r)
    \/ \E r \in RunIds : RunSwarmStarts(r)
    \/ \E r \in RunIds : \E p \in TaskIds(r) : TaskStarts(r, p)
    \/ \E r \in RunIds : \E p \in TaskIds(r) : \E chunk \in env.chunks :
            StreamYields(r, p, chunk)
    \/ \E r \in RunIds : \E p \in TaskIds(r) : StreamEnds(r, p)
    \/ \E r \in RunIds : \E p \in TaskIds(r) : \E exc \in StreamErrors :
            StreamRaises(r, p, exc)
    \/ \E r \in RunIds : RunSwarmConcludes(r)

\* A task that waited for the limiter runs again. A run of at most
\* _MAX_CONCURRENCY tasks never has a waiting task, so this step belongs to the
\* saturated configuration only.
Resumption == \E r \in RunIds : \E p \in TaskIds(r) : TaskResumes(r, p)

FanOut == Launching \/ Running

FanOutSaturated == FanOut \/ Resumption

Next == FanOut

Spec == Init /\ [][Next]_vars

\* The fan-out observed by one paging client.
Paging == \E r \in RunIds : ReaderPolls(r)

NextPaging == FanOut \/ Paging

SpecPaging == Init /\ [][NextPaging]_vars

\* The fan-out observed by free-form get_events calls.
Querying ==
    \E r \in RunIds : \E cursor \in QueryCursors : \E model_id \in QueryModels :
        QueryEvents(r, cursor, model_id)

NextQuerying ==
    \/ query = NoQuery /\ FanOut
    \/ Querying
    \/ QueryReturns

SpecQuerying == Init /\ [][NextQuerying]_vars

\* The fan-out observed by a single streaming handler.
Streaming ==
    \/ \E r \in RunIds : HandlerOpens(r)
    \/ \E h \in 1..Len(handlers) : HandlerReads(h)

NextStreaming == FanOut \/ Streaming

InitStreaming == InitWith([SmallEnv EXCEPT !.maxHandlers = 1])

SpecStreaming == InitStreaming /\ [][NextStreaming]_vars

\* The loop runs every callback that is ready, the collaborator's streams end
\* or raise after finitely many items, and the client of an open stream keeps
\* reading it.
FairSpecStreaming == SpecStreaming /\ WF_vars(FanOut) /\ WF_vars(Streaming)

\* The fan-out observed by several streaming handlers at once.
InitMultiStreaming ==
    InitWith([SmallEnv EXCEPT !.maxHandlers = MaxHandlers, !.maxChunks = 1,
                              !.specs = {None}])

SpecMultiStreaming == InitMultiStreaming /\ [][NextStreaming]_vars

\* The same under the scheduling of FairSpecStreaming.
FairSpecMultiStreaming ==
    SpecMultiStreaming /\ WF_vars(FanOut) /\ WF_vars(Streaming)

InitSaturated == InitWith(SaturatedEnv)

\* The saturated fan-out with one streaming handler that may read or not.
InitSaturatedStreaming == InitWith([SaturatedEnv EXCEPT !.maxHandlers = 1])

NextSaturated == FanOutSaturated

NextSaturatedStreaming == FanOutSaturated \/ Streaming

\* The loop runs every callback that is ready and the collaborator's streams end
\* or raise after finitely many items; nothing is assumed of the handler.
FairSpecSaturated ==
    InitSaturatedStreaming /\ [][NextSaturatedStreaming]_vars /\ WF_vars(FanOutSaturated)

SpecSaturated == InitSaturated /\ [][NextSaturated]_vars

\* Several saturated runs executing at the same time, their streams ending
\* without an item: the steps that take and give back limiter slots.
InitConcurrentRuns == InitWith([SaturatedEnv EXCEPT !.maxRuns = MaxConcurrentRuns])

Draining ==
    \/ \E r \in RunIds : RunSwarmStarts(r)
    \/ \E r \in RunIds : \E p \in TaskIds(r) : TaskStarts(r, p)
    \/ \E r \in RunIds : \E p \in TaskIds(r) : StreamEnds(r, p)
    \/ \E r \in RunIds : RunSwarmConcludes(r)

NextConcurrentRuns == Launching \/ Draining \/ Resumption

SpecConcurrentRuns == InitConcurrentRuns /\ [][NextConcurrentRuns]_vars

\* The registry driven by outside calls alone, in any order, with known and
\* unknown ids.
RuntimeEnv == [SmallEnv EXCEPT !.maxCalls = MaxCalls]

RuntimeCalls ==
    \/ CallCreateSession
    \/ \E session_id \in SessionIdInputs : CallCreateRun(session_id)
    \/ \E session_id \in SessionIdInputs : CallGetSession(session_id)
    \/ \E session_id \in SessionIdInputs :
            CallAddSessionMessage(session_id, "user", <<"hi">>)
    \/ \E run_id \in RunIdInputs : CallAddRunEvent(run_id, OutsideEvent)
    \/ \E run_id \in RunIdInputs : \E key \in KeyInputs : \E result \in ResultInputs :
            CallSetModelResult(run_id, key[1], key[2], result)
    \/ \E run_id \in RunIdInputs : CallGetResults(run_id)
    \/ \E run_id \in RunIdInputs : CallGetEvents(run_id, None)
    \/ \E run_id \in RunIdInputs : CallSetRunComplete(run_id)

InitRuntime == InitWith(RuntimeEnv)

NextRuntime == RuntimeCalls

SpecRuntime == InitRuntime /\ [][NextRuntime]_vars

\* The routes: planner sessions and runs started over HTTP, with the fan-out of
\* the runs they start (five repetitions of one model, one stream at a time).
RoutesEnv ==
    [SaturatedEnv EXCEPT !.minTasks = 0, !.maxTasks = DefaultReps, !.maxTurns = 1]

Routes ==
    \/ CreatePlannerSession
    \/ \E session_id \in SessionIdInputs : PlannerSessionMessage(session_id)
    \/ \E c \in 1..Len(chats) : \E outcome \in PlannerOutcomes :
            PlannerChatReturns(c, outcome)
    \/ \E k \in 1..env.maxTasks : \E session_id \in SessionIdInputs :
            \E payload_session \in {None, Some(session_id)} :
                StartSwarmRun(k, payload_session)

InitRoutes == InitWith(RoutesEnv)

NextRoutes == Routes \/ Running

SpecRoutes == InitRoutes /\ [][NextRoutes]_vars

\* Runs one after the other, of one task each, with write_sse_sample called from
\* outside at any moment, on known and unknown runs; artifacts/sse is empty at
\* first or holds files somebody else left there.
SampleEnv ==
    [SmallEnv EXCEPT !.maxRuns = MaxSampleRuns, !.maxTasks = 1, !.maxChunks = 1,
                     !.maxRaises = 1, !.specs = {Some([prompt |-> <<"P">>]), Some([prompt |-> <<>>])},
                     !.repCounts = {1}, !.chunks = {Chunk(Some(<<"a">>), None)},
                     !.maxCalls = MaxExportCalls, !.overlap = FALSE]

Sampling == \E run_id \in RunIdInputs : CallWriteSseSample(run_id)

InitSample == \E d \in {NewDisk, StaleDisk} : InitWith([SampleEnv EXCEPT !.disk = d])

NextSample == FanOut \/ Sampling

SpecSample == InitSample /\ [][NextSample]_vars

\* One run with export_run_results called from outside at any moment, on the run
\* and on an unknown id, and a result published by somebody other than run_swarm.
ExportEnv ==
    [SmallEnv EXCEPT !.maxChunks = 1, !.maxRaises = 1,
                     !.specs = {Some([prompt |-> <<"P">>]), Some([prompt |-> <<>>])}, !.repCounts = {1},
                     !.chunks = {Chunk(Some(<<"a">>), None)},
                     !.maxCalls = MaxExportCalls]

\* a result whose status is neither completed nor error
ForeignResult == [status |-> "exception", error |-> <<"boom">>]

Exporting ==
    \/ \E run_id \in RunIdInputs : CallExportRunResults(run_id)
    \/ \E run_id \in RunIds : CallSetModelResult(run_id, "v/m3", 0, ForeignResult)

InitExport == InitWith(ExportEnv)

NextExport == FanOut \/ Exporting

SpecExport == InitExport /\ [][NextExport]_vars

\* ---- runs over any list of models
\* The lists a caller may pass to run_swarm: one model, two models, and the same
\* model twice (load_models keeps a line of models.txt that occurs twice).
ModelListInputs ==
    {<<ModelPool[1]>>, <<ModelPool[1], ModelPool[2]>>, <<ModelPool[1], ModelPool[1]>>}

LaunchingLists ==
    \E models \in ModelListInputs, reps \in env.repCounts, spec \in env.specs :
        LaunchModels(models, reps, spec)

NextModelLists == LaunchingLists \/ Running

SpecModelLists == Init /\ [][NextModelLists]_vars

\* ---- export_run_results after runs over any list of models
ExportListInputs ==
    {<<ModelPool[1]>>, <<ModelPool[1], ModelPool[2]>>, <<ModelPool[1], UnderscoreModel>>}

LaunchingExportLists ==
    \E models \in ExportListInputs, reps \in env.repCounts, spec \in env.specs :
        LaunchModels(models, reps, spec)

NextExportLists ==
    \/ LaunchingExportLists
    \/ Running
    \/ \E run_id \in RunIdInputs : CallExportRunResults(run_id)

SpecExportLists == InitExport /\ [][NextExportLists]_vars

\* ---- validate_eval_questions on its own
\* The question texts tried: two yes/no questions (the second in capitals, with
\* whitespace around it), and texts that are no yes/no question: the two of
\* test_validate_eval_questions_duplicate_id, no verb, no question mark, a tab
\* after the verb, the verb alone.
QuestionOk == <<"I", "s", " ", "i", "t", "?">>

QuestionOkShouted == <<" ", "D", "O", " ", "i", "t", "?", "\n">>

QuestionPlain == <<"Q", "1">>

QuestionPlainToo == <<"Q", "2">>

QuestionNoVerb == <<"W", "h", "y", "?">>

QuestionNoMark == <<"I", "s", " ", "i", "t">>

QuestionTab == <<"I", "s", "\t", "i", "t", "?">>

QuestionVerbOnly == <<"I", "s", "?">>

BlankText == <<" ", "\t">>

\* {"id": id, "category": category, "question": question}
Question(id, category, question) ==
    DictItem([id |-> id, category |-> category, question |-> question])

\* The items a list may hold: well-formed ones (with ids that repeat, differ, or
\* differ by a blank only) and one for every check of the validator.
ItemInputs ==
    {Question(StrValue(<<"x">>), StrValue(<<"c">>), StrValue(QuestionOk)),
     Question(StrValue(<<"x">>), StrValue(<<"d">>), StrValue(QuestionOkShouted)),
     Question(StrValue(<<"y">>), StrValue(<<"c">>), StrValue(QuestionOk)),
     Question(StrValue(<<" ", "x">>), StrValue(<<"c">>), StrValue(QuestionOk)),
     Question(StrValue(<<"x">>), StrValue(<<"c">>), StrValue(QuestionPlain)),
     Question(StrValue(<<"x">>), StrValue(<<"c">>), StrValue(QuestionPlainToo)),
     Question(StrValue(<<"x">>), StrValue(<<"c">>), StrValue(QuestionNoVerb)),
     Question(StrValue(<<"x">>), StrValue(<<"c">>), StrValue(QuestionNoMark)),
     Question(StrValue(<<"x">>), StrValue(<<"c">>), StrValue(QuestionTab)),
     Question(StrValue(<<"x">>), StrValue(<<"c">>), StrValue(QuestionVerbOnly)),
     Question(StrValue(<<"x">>), StrValue(<<"c">>), StrValue(BlankText)),
     Question(StrValue(<<"x">>), StrValue(<<"c">>), NonStr),
     Question(StrValue(<<"x">>), StrValue(BlankText), StrValue(QuestionOk)),
     Question(StrValue(<<"x">>), NonStr, StrValue(QuestionOk)),
     Question(StrValue(<<>>), StrValue(<<"c">>), StrValue(QuestionOk)),
     Question(NonStr, StrValue(<<"c">>), StrValue(QuestionOk)),
     DictItem([id |-> StrValue(<<"x">>), category |-> StrValue(<<"c">>)]),
     DictItem([id |-> StrValue(<<"x">>), category |-> StrValue(<<"c">>),
               question |-> StrValue(QuestionOk), weight |-> NonStr]),
     NonDict}

\* The lists of at most n items
ListsUpTo(n) == UNION {[1..k -> ItemInputs] : k \in 0..n}

\* The raw values validate_eval_questions is applied to: something that is no
\* list, and every list of at most MaxQuestions items.
RawInputs == {NonList} \cup {ListValue(items) : items \in ListsUpTo(MaxQuestions)}

InitValidation ==
    \E raw \in RawInputs :
        InitWith([SmallEnv EXCEPT !.applied = Application("validate_eval_questions", raw)])

NextValidation == ApplyValidateEvalQuestions

SpecValidation == InitValidation /\ [][NextValidation]_vars

\* ---- normalize_spec on its own
\* A spec holds, for every key, one of the values tried for it, or lacks the key:
\* choice maps each key to an optional value, None standing for a missing key.
SpecKeys ==
    {"prompt_template", "prompt", "input_data", "emails", "data",
     "evaluation", "rubric", "eval_questions"}

SpecOf(choice) == [key \in {k \in SpecKeys : choice[k] # None} |-> The(choice[key])]

\* The values tried under input_data: null, the empty object and array, and an
\* object and an array of its own; under emails and data, fewer of them.
InputDataInputs ==
    {None, Some(JsonNull), Some(JsonObject(<<>>)), Some(JsonArray(<<>>)),
     Some(JsonObject(<<Member(<<"a">>, JsonNumber(1))>>)),
     Some(JsonArray(<<JsonNumber(3)>>))}

EmailsInputs ==
    {None, Some(JsonArray(<<>>)),
     Some(JsonObject(<<Member(<<"e">>, JsonNumber(1))>>)),
     Some(JsonArray(<<JsonNumber(1), JsonNumber(2)>>))}

DataInputs ==
    {None, Some(JsonObject(<<Member(<<"d">>, JsonNumber(1))>>)),
     Some(JsonArray(<<JsonNumber(4)>>))}

\* The values tried under eval_questions: null, the empty list, a list with an
\* item that is no yes/no question, a list of one question, and a list of three
\* questions in two categories, the first category split by the second.
EvalQuestionsInputs ==
    {None, Some(None), Some(Some(ListValue(<<>>))),
     Some(Some(ListValue(
        <<Question(StrValue(<<"x">>), StrValue(<<"c">>), StrValue(QuestionPlain))>>))),
     Some(Some(ListValue(
        <<Question(StrValue(<<"x">>), StrValue(<<"c">>), StrValue(QuestionOk))>>))),
     Some(Some(ListValue(
        <<Question(StrValue(<<"x">>), StrValue(<<"c", "_", "d">>), StrValue(QuestionOk)),
          Question(StrValue(<<"y">>), StrValue(<<"e">>), StrValue(QuestionOkShouted)),
          Question(StrValue(<<"z">>), StrValue(<<"c", "_", "d">>), StrValue(QuestionOk))>>)))}

\* The texts tried under a key that holds text: none, the empty one, one of its own
TextInputs(text) == {None, Some(<<>>), Some(text)}

NormalizeInputs ==
    {SpecOf([prompt_template |-> prompt_template, prompt |-> prompt,
             input_data |-> input_data, emails |-> emails, data |-> data,
             evaluation |-> evaluation, rubric |-> rubric,
             eval_questions |-> eval_questions]) :
        prompt_template \in TextInputs(<<"T">>), prompt \in TextInputs(<<"P">>),
        input_data \in InputDataInputs, emails \in EmailsInputs, data \in DataInputs,
        evaluation \in TextInputs(<<"E">>), rubric \in TextInputs(<<"R">>),
        eval_questions \in EvalQuestionsInputs}

InitNormalization ==
    \E spec \in NormalizeInputs :
        InitWith([SmallEnv EXCEPT !.applied = Application("normalize_spec", spec)])

NextNormalization == ApplyNormalizeSpec

SpecNormalization == InitNormalization /\ [][NextNormalization]_vars

\* ---- _parse_openrouter_sse_line on its own
\* The lines tried: what stands before the payload, the payload, and what
\* follows it.
LinePrefixes ==
    {\* data:
     <<"data", ":">>,
     \* data: 
     <<"data", ":", " ">>,
     \*  data: 
     <<" ", "data", ":", " ">>,
     \* : 
     <<":", " ">>,
     \* event: 
     <<"event", ":", " ">>,
     \* (empty)
     <<>>}

LinePayloads ==
    {\* (empty)
     <<>>,
     \* [DONE]
     <<"[", "DONE", "]">>,
     \* ping
     <<"ping">>,
     \* {"choices":[{"delta":{"content":"hello"}}]}
     <<"{", "\"", "choices", "\"", ":", "[", "{", "\"", "delta", "\"", ":", "{", "\"", "content", "\"", ":", "\"", "hello", "\"", "}", "}", "]", "}">>,
     \* {"choices":[{"delta":{"reasoning_details":[{"type":"summary"}]}}],"usage":{"prompt_tokens":1}}
     <<"{", "\"", "choices", "\"", ":", "[", "{", "\"", "delta", "\"", ":", "{", "\"", "reasoning_details", "\"", ":", "[", "{", "\"", "type", "\"", ":", "\"", "summary", "\"", "}", "]", "}", "}", "]", ",", "\"", "usage", "\"", ":", "{", "\"", "prompt_tokens", "\"", ":", "1", "}", "}">>,
     \* {"choices":[{"message":{"reasoning_details":[1]}}]}
     <<"{", "\"", "choices", "\"", ":", "[", "{", "\"", "message", "\"", ":", "{", "\"", "reasoning_details", "\"", ":", "[", "1", "]", "}", "}", "]", "}">>,
     \* {}
     <<"{", "}">>,
     \* 5
     <<"5">>,
     \* null
     <<"null">>,
     \* "x"
     <<"\"", "x", "\"">>,
     \* []
     <<"[", "]">>,
     \* {"choices":{"a":1}}
     <<"{", "\"", "choices", "\"", ":", "{", "\"", "a", "\"", ":", "1", "}", "}">>,
     \* {"choices":[5]}
     <<"{", "\"", "choices", "\"", ":", "[", "5", "]", "}">>,
     \* {"choices":"x"}
     <<"{", "\"", "choices", "\"", ":", "\"", "x", "\"", "}">>,
     \* {"choices":7}
     <<"{", "\"", "choices", "\"", ":", "7", "}">>,
     \* {"choices":[{"delta":"x"}]}
     <<"{", "\"", "choices", "\"", ":", "[", "{", "\"", "delta", "\"", ":", "\"", "x", "\"", "}", "]", "}">>,
     \* {"choices":[{"delta":{"reasoning_details":[1]},"message":"x"}]}
     <<"{", "\"", "choices", "\"", ":", "[", "{", "\"", "delta", "\"", ":", "{", "\"", "reasoning_details", "\"", ":", "[", "1", "]", "}", ",", "\"", "message", "\"", ":", "\"", "x", "\"", "}", "]", "}">>,
     \* {"choices":[{"message":"x"}]}
     <<"{", "\"", "choices", "\"", ":", "[", "{", "\"", "message", "\"", ":", "\"", "x", "\"", "}", "]", "}">>,
     \* {"choices":[]}
     <<"{", "\"", "choices", "\"", ":", "[", "]", "}">>,
     \* {"choices":[{"delta":{"content":"a"}}]
     <<"{", "\"", "choices", "\"", ":", "[", "{", "\"", "delta", "\"", ":", "{", "\"", "content", "\"", ":", "\"", "a", "\"", "}", "}", "]">>,
     \* {"usage":{"t":1},}
     <<"{", "\"", "usage", "\"", ":", "{", "\"", "t", "\"", ":", "1", "}", ",", "}">>,
     \* { "choices" : [ ] , "usage" : null }
     <<"{", " ", "\"", "choices", "\"", " ", ":", " ", "[", " ", "]", " ", ",", " ", "\"", "usage", "\"", " ", ":", " ", "null", " ", "}">>,
     \* {"choices":true}
     <<"{", "\"", "choices", "\"", ":", "true", "}">>,
     \* {"a":1,"a":2}
     <<"{", "\"", "a", "\"", ":", "1", ",", "\"", "a", "\"", ":", "2", "}">>,
     \* 01
     <<"0", "1">>,
     \* -1
     <<"-", "1">>,
     \* {"choices":[{"delta":{"content":"a\\"b"}}]}
     <<"{", "\"", "choices", "\"", ":", "[", "{", "\"", "delta", "\"", ":", "{", "\"", "content", "\"", ":", "\"", "a", "\\", "\"", "b", "\"", "}", "}", "]", "}">>,
     \* {"choices":[{"delta":{"content":""}}],"usage":0}
     <<"{", "\"", "choices", "\"", ":", "[", "{", "\"", "delta", "\"", ":", "{", "\"", "content", "\"", ":", "\"", "\"", "}", "}", "]", ",", "\"", "usage", "\"", ":", "0", "}">>}

LineSuffixes ==
    {\* (empty)
     <<>>,
     \*  
     <<" ">>,
     \* \n
     <<"\n">>}

LineInputs ==
    {prefix \o payload \o suffix :
        prefix \in LinePrefixes, payload \in LinePayloads, suffix \in LineSuffixes}

InitLineParsing ==
    \E line \in LineInputs :
        InitWith([SmallEnv EXCEPT
                    !.applied = Application("_parse_openrouter_sse_line", line)])

NextLineParsing == ApplyParseOpenrouterSseLine

SpecLineParsing == InitLineParsing /\ [][NextLineParsing]_vars

\* ---- _try_extract_draft_spec on its own
\* The assistant texts tried: what stands before the block, the block, and what
\* follows it.
TextBefore ==
    {\* (empty)
     <<>>,
     \* Sure: 
     <<"Sure", ":", " ">>,
     \* ```json\n
     <<Backtick, Backtick, Backtick, "json", "\n">>,
     \* ```
     <<Backtick, Backtick, Backtick>>,
     \* ``` json\n
     <<Backtick, Backtick, Backtick, " ", "json", "\n">>,
     \* bad { then ```json 
     <<"bad", " ", "{", " ", "then", " ", Backtick, Backtick, Backtick, "json", " ">>,
     \* {"p":1} then ```json\n
     <<"{", "\"", "p", "\"", ":", "1", "}", " ", "then", " ", Backtick, Backtick, Backtick, "json", "\n">>,
     \* it's 
     <<"it", "'", "s", " ">>,
     \* ```json{x} 
     <<Backtick, Backtick, Backtick, "json", "{", "x", "}", " ">>}

TextBlocks ==
    {\* {"prompt":"P"}
     <<"{", "\"", "prompt", "\"", ":", "\"", "P", "\"", "}">>,
     \* {"a":"}"}
     <<"{", "\"", "a", "\"", ":", "\"", "}", "\"", "}">>,
     \* {"a":"{"}
     <<"{", "\"", "a", "\"", ":", "\"", "{", "\"", "}">>,
     \* {"a":{"b":1}}
     <<"{", "\"", "a", "\"", ":", "{", "\"", "b", "\"", ":", "1", "}", "}">>,
     \* {"a":1, //c\n"b":2}
     <<"{", "\"", "a", "\"", ":", "1", ",", " ", "/", "/", "c", "\n", "\"", "b", "\"", ":", "2", "}">>,
     \* {"a":"x //y"}
     <<"{", "\"", "a", "\"", ":", "\"", "x", " ", "/", "/", "y", "\"", "}">>,
     \* {'a':1}
     <<"{", "'", "a", "'", ":", "1", "}">>,
     \* {"a":1
     <<"{", "\"", "a", "\"", ":", "1">>,
     \* {}
     <<"{", "}">>,
     \* {"a":"q\\"}"}
     <<"{", "\"", "a", "\"", ":", "\"", "q", "\\", "\"", "}", "\"", "}">>,
     \* (empty)
     <<>>,
     \* {"a":1,}
     <<"{", "\"", "a", "\"", ":", "1", ",", "}">>,
     \* {"a":\'}\'}
     <<"{", "\"", "a", "\"", ":", "'", "}", "'", "}">>,
     \* {"a":"it\'s"}
     <<"{", "\"", "a", "\"", ":", "\"", "it", "'", "s", "\"", "}">>,
     \* {"a":[1,{"b":null}]}
     <<"{", "\"", "a", "\"", ":", "[", "1", ",", "{", "\"", "b", "\"", ":", "null", "}", "]", "}">>}

TextAfter ==
    {\* (empty)
     <<>>,
     \*  trailing
     <<" ", "trailing">>,
     \* \n```\nDone.
     <<"\n", Backtick, Backtick, Backtick, "\n", "Done", ".">>,
     \*  } extra {"z":1}
     <<" ", "}", " ", "extra", " ", "{", "\"", "z", "\"", ":", "1", "}">>}

AssistantTexts ==
    {before \o block \o after :
        before \in TextBefore, block \in TextBlocks, after \in TextAfter}

InitExtraction ==
    \E text \in AssistantTexts :
        InitWith([SmallEnv EXCEPT
                    !.applied = Application("_try_extract_draft_spec", text)])

NextExtraction == ApplyTryExtractDraftSpec

SpecExtraction == InitExtraction /\ [][NextExtraction]_vars

\* ---- a session is confirmed
\* A chunk that carries reasoning_details only: _run_single_model reads the
\* content_delta and the usage of a chunk and nothing else of it.
ReasoningChunk == Chunk(None, None)

\* What the collaborator's stream yields for the confirmed run, as the stub of
\* test_confirm_run_emits_events_and_writes_txt does: two content chunks, a
\* reasoning-details chunk, a usage chunk, then the end.
SampleStream ==
    <<Chunk(Some(<<"a">>), None), Chunk(Some(<<"b">>), None), ReasoningChunk,
      Chunk(None, Some(Usage1))>>

ConfirmEnv ==
    [SmallEnv EXCEPT !.maxTasks = 1, !.maxChunks = Len(SampleStream), !.maxRaises = 1,
                     !.maxHandlers = 1, !.maxCalls = MaxConfirmCalls, !.maxTurns = 1]

Confirming ==
    \/ CreatePlannerSession
    \/ \E session_id \in SessionIdInputs : PlannerSessionMessage(session_id)
    \/ \E c \in 1..Len(chats) : \E outcome \in PlannerOutcomes :
            PlannerChatReturns(c, outcome)
    \/ \E session_id \in SessionIdInputs : PlannerSessionConfirm(session_id)
    \/ \E c \in 1..Len(calls) : PlannerConfirmReturns(c)

\* The fan-out of the confirmed run, its stream yielding SampleStream in order
\* (or raising on the way).
ScriptedRunning ==
    \/ \E r \in RunIds : RunSwarmAborts(r)
    \/ \E r \in RunIds : RunSwarmStarts(r)
    \/ \E r \in RunIds : \E p \in TaskIds(r) : TaskStarts(r, p)
    \/ \E r \in RunIds : \E p \in TaskIds(r) :
            /\ tasks[r][p].yielded < Len(SampleStream)
            /\ StreamYields(r, p, SampleStream[tasks[r][p].yielded + 1])
    \/ \E r \in RunIds : \E p \in TaskIds(r) :
            /\ tasks[r][p].yielded = Len(SampleStream)
            /\ StreamEnds(r, p)
    \/ \E r \in RunIds : \E p \in TaskIds(r) : \E exc \in StreamErrors :
            StreamRaises(r, p, exc)
    \/ \E r \in RunIds : RunSwarmConcludes(r)

InitConfirm == \E d \in {NewDisk, StaleDisk} : InitWith([ConfirmEnv EXCEPT !.disk = d])

NextConfirm == Confirming \/ ScriptedRunning \/ Streaming

SpecConfirm == InitConfirm /\ [][NextConfirm]_vars

\* ------------------------------------------------------------- claims
EventsOfType(events, event_type) ==
    {i \in 1..Len(events) : events[i].event_type = event_type}

\* positions of the events of one (model, rep) pair with one of the given types
TaskEvents(events, task, types) ==
    {i \in 1..Len(events) :
        /\ events[i].model_id = Some(task.model.id)
        /\ events[i].rep_index = Some(task.rep_index)
        /\ events[i].event_type \in types}

TerminalTypes == {"model_run_completed", "model_run_error"}

\* C1: in every reachable state, for every run, the cursor counter equals the
\* number of events in the log, and the k-th event appended carries cursor k (as
\* the decimal string of k, with event_id evt_<k padded to 4>): 1..N in call
\* order, no gap, no repeat.
TheoremC1 ==
    \A r \in RunIds :
        /\ runs[r].cursor = Len(runs[r].events)
        /\ \A k \in 1..Len(runs[r].events) :
              /\ runs[r].events[k].cursor = Str(k)
              /\ Int_(runs[r].events[k].cursor) = k
              /\ runs[r].events[k].event_id = EventId(k)

\* Two tasks have appended events in alternation and the run has finished.
WitnessC1 ==
    \E r \in RunIds :
        /\ runs[r].status = "completed"
        /\ Len(runs[r].events) >= 7
        /\ \E i \in 1..(Len(runs[r].events) - 2) :
              /\ runs[r].events[i].model_id # None
              /\ runs[r].events[i + 1].model_id # None
              /\ runs[r].events[i + 1].model_id # runs[r].events[i].model_id
              /\ runs[r].events[i + 2].model_id = runs[r].events[i].model_id

\* C2 (state part): everything the paging client has received is the log's
\* prefix of the same length, event for event, so cursors 1..n in order.
ReaderHasPrefix ==
    reader.run_id # None =>
        LET events == runs[The(reader.run_id)].events
        IN /\ Len(reader.got) <= Len(events)
           /\ \A i \in 1..Len(reader.got) :
                 /\ reader.got[i] = RunEvent(events[i])
                 /\ reader.got[i].cursor = Str(i)
           /\ reader.cursor = IF reader.got = <<>> THEN None
                              ELSE Some(Str(Len(reader.got)))

\* C2 (step part): after each poll the client holds every event the log had at
\* the time of the poll.
ReaderCatchesUp ==
    reader' # reader =>
        Len(reader'.got) = Len(runs'[The(reader'.run_id)].events)

\* C2: a single client that pages with the last cursor it received (none at
\* first, unchanged after an empty page), while events are being appended,
\* receives every event exactly once, in cursor order, without gap or
\* duplicate.
TheoremC2 == []ReaderHasPrefix /\ [][ReaderCatchesUp]_vars

\* The client has paged through all of a finished run whose tasks streamed
\* content.
WitnessC2 ==
    /\ reader.run_id # None
    /\ runs[The(reader.run_id)].status = "completed"
    /\ Len(reader.got) = Len(runs[The(reader.run_id)].events)
    /\ Len(reader.got) >= 5
    /\ swarm[The(reader.run_id)].pc = "done"
    /\ \E p \in TaskIds(The(reader.run_id)) :
          tasks[The(reader.run_id)][p].chunk_count > 0

\* the events of a log after position n (n < 0 counts as 0)
LogAfter(events, n) == SubSeq(events, (IF n < 0 THEN 0 ELSE n) + 1, Len(events))

\* C3: a get_events call with no model filter and cursor c (any text int()
\* accepts) returns the log's events after position int(c), in log order, all of
\* them when c is absent, and leaves every run as it was.
TheoremC3 ==
    [][(query' # query /\ query' # NoQuery /\ ~query'.raised
            /\ query'.model_id = None)
        => /\ runs' = runs
           /\ query'.result =
                 IF query'.cursor = None THEN runs[query'.run_id].events
                 ELSE LogAfter(runs[query'.run_id].events, Int_(The(query'.cursor)))]_vars

\* A call with a cursor strictly inside the log returned a proper, non-empty
\* part of it.
WitnessC3 ==
    /\ query # NoQuery
    /\ query.cursor = Some(<<" ", "2", " ">>)
    /\ query.model_id = None
    /\ Len(query.result) >= 2
    /\ Len(query.result) < Len(runs[query.run_id].events)

\* C4 (state part): a handler's frames are the frames of the log's first events,
\* one per event, ids 1, 2, 3, ... in order; once it has stopped it has emitted
\* a frame for every event of the run, the last one for run_completed, and the
\* run is completed.
HandlerFramesLog ==
    \A h \in 1..Len(handlers) :
        LET events == runs[handlers[h].run_id].events
            frames == handlers[h].frames
        IN /\ Len(frames) <= Len(events)
           /\ \A i \in 1..Len(frames) :
                 frames[i] = ToSseBlock(events[i]) /\ frames[i].id = Str(i)
           /\ handlers[h].pc = "closed" =>
                 /\ Len(frames) = Len(events)
                 /\ frames[Len(frames)].event = "run_completed"
                 /\ runs[handlers[h].run_id].status = "completed"

\* C4 (progress part): a handler on a run whose run_swarm got past scenario
\* resolution eventually stops.
HandlerStops ==
    (IF Len(handlers) >= 1
     THEN swarm[handlers[1].run_id].pc \in {"gather", "done"} ELSE FALSE)
        ~> (IF Len(handlers) >= 1 THEN handlers[1].pc = "closed" ELSE FALSE)

\* C4: with a single streaming handler on a run, whenever it subscribes, the
\* handler emits exactly one frame per event of the run, ids increasing from 1
\* with none skipped or repeated, run_completed last, and then stops on the
\* sentinel.
TheoremC4 == []HandlerFramesLog /\ HandlerStops

\* A handler has stopped after emitting the frames of a run with task events.
WitnessC4 ==
    \E h \in 1..Len(handlers) :
        /\ handlers[h].pc = "closed"
        /\ Len(handlers[h].frames) >= 6

\* C5: a run's queue has received a sentinel exactly when the run is completed;
\* then it has received exactly one, as its last item, right after the
\* run_completed event, which is the last event of the log: everything put on
\* the queue is the log followed by the sentinel.
TheoremC5 ==
    \A r \in RunIds :
        LET items == runs[r].queue.items
            sentinels == {i \in 1..Len(items) : IsSentinel(items[i])}
        IN IF runs[r].status = "completed"
           THEN /\ sentinels = {Len(items)}
                /\ Len(items) = Len(runs[r].events) + 1
                /\ \A i \in 1..Len(runs[r].events) : items[i] = runs[r].events[i]
                /\ runs[r].events[Len(runs[r].events)].event_type = "run_completed"
                /\ swarm[r].pc = "done"
           ELSE sentinels = {}

\* run_swarm has returned from a run with tasks.
WitnessC5 ==
    \E r \in RunIds :
        /\ swarm[r].pc = "done"
        /\ runs[r].status = "completed"
        /\ Len(tasks[r]) >= 2
        /\ Len(runs[r].queue.items) >= 7

\* C6: per task at most one model_run_started and at most one terminal event,
\* the terminal one never before the started one; run_started is the log's
\* first event and there is one; once run_swarm has returned every (model, rep)
\* pair has exactly one model_run_started and exactly one terminal event, and
\* run_completed is there once, as the last event.
TheoremC6 ==
    \A r \in RunIds :
        LET events == runs[r].events
            started(p) == TaskEvents(events, tasks[r][p], {"model_run_started"})
            terminal(p) == TaskEvents(events, tasks[r][p], TerminalTypes)
        IN /\ events # <<>> => EventsOfType(events, "run_started") = {1}
           /\ \A p \in TaskIds(r) :
                 /\ Cardinality(started(p)) <= 1
                 /\ Cardinality(terminal(p)) <= 1
                 /\ \A i \in terminal(p) : \E j \in started(p) : j < i
           /\ swarm[r].pc = "done" =>
                 /\ Len(tasks[r]) = Len(swarm[r].models) * swarm[r].reps
                 /\ \A p \in TaskIds(r) :
                       Cardinality(started(p)) = 1 /\ Cardinality(terminal(p)) = 1
                 /\ Cardinality(EventsOfType(events, "model_run_started")) = Len(tasks[r])
                 /\ Cardinality(EventsOfType(events, "model_run_completed")
                                \cup EventsOfType(events, "model_run_error")) = Len(tasks[r])
                 /\ EventsOfType(events, "run_completed") = {Len(events)}

\* run_swarm has returned from a run of two tasks, one completed and one failed.
WitnessC6 ==
    \E r \in RunIds :
        /\ swarm[r].pc = "done"
        /\ Len(tasks[r]) = 2
        /\ EventsOfType(runs[r].events, "model_run_error") # {}
        /\ EventsOfType(runs[r].events, "model_run_completed") # {}
        /\ EventsOfType(runs[r].events, "narration_delta") # {}

\* C7: a stream that raises does not take run_swarm or a sibling down: run_swarm
\* fails only before run_started; a task that has returned has its Result
\* recorded, error with the text accumulated so far when its stream raised and
\* completed when it ended; and once run_swarm has returned the run is completed
\* and gather has a Result, not an exception, for every task.
TheoremC7 ==
    \A r \in RunIds :
        /\ swarm[r].pc = "raised" => runs[r].events = <<>>
        /\ \A p \in TaskIds(r) :
              tasks[r][p].pc = "returned" =>
                 LET task == tasks[r][p]
                     key == ResultKey(task.model.id, task.rep_index)
                 IN /\ key \in DOMAIN runs[r].results
                    /\ runs[r].results[key].status =
                          (IF task.stream = "raised" THEN "error" ELSE "completed")
                    /\ runs[r].results[key].output = task.accumulated_text
                    /\ runs[r].results[key].model_id = task.model.id
                    /\ runs[r].results[key].rep_index = task.rep_index
        /\ swarm[r].pc = "done" =>
              /\ runs[r].status = "completed"
              /\ Len(swarm[r].collected) = Len(tasks[r])
              /\ \A p \in TaskIds(r) :
                    swarm[r].collected[p].status =
                       (IF tasks[r][p].stream = "raised" THEN "error" ELSE "completed")

\* One task's stream raised after a content chunk, its sibling completed, and
\* run_swarm has returned.
WitnessC7 ==
    \E r \in RunIds :
        /\ swarm[r].pc = "done"
        /\ \E p \in TaskIds(r), q \in TaskIds(r) :
              /\ tasks[r][p].stream = "raised"
              /\ tasks[r][p].accumulated_text # <<>>
              /\ tasks[r][q].stream = "ended"

\* the tasks that hold a limiter slot: streaming, or handed the slot and not yet
\* resumed
Holders(r) == {p \in TaskIds(r) : tasks[r][p].pc \in {"streaming", "woken"}}

\* C8 (state part): at most _MAX_CONCURRENCY tasks of a run hold a slot, the
\* limiter's counter is the number of free slots, a task waits only while every
\* slot is held, and a task that has not got a slot has received nothing from
\* the collaborator and has no narration_delta in the log.
LimiterHolds ==
    \A r \in RunIds :
        swarm[r].pc \in {"gather", "done"} =>
            /\ Cardinality(Holders(r)) <= _MAX_CONCURRENCY
            /\ swarm[r].sem.value = _MAX_CONCURRENCY - Cardinality(Holders(r))
            /\ \A p \in TaskIds(r) :
                  /\ tasks[r][p].pc = "waiting" =>
                        Cardinality(Holders(r)) = _MAX_CONCURRENCY
                  /\ tasks[r][p].pc \in {"created", "waiting", "woken"} =>
                        /\ tasks[r][p].yielded = 0
                        /\ TaskEvents(runs[r].events, tasks[r][p],
                                      {"narration_delta"} \cup TerminalTypes) = {}

\* C8 (step part): a waiting task gets its slot only in a step in which a task
\* of the same run returns.
SlotOnlyOnRelease ==
    \A r \in RunIds : \A p \in TaskIds(r) :
        (tasks[r][p].pc = "waiting" /\ tasks'[r][p].pc # "waiting") =>
            \E q \in TaskIds(r) :
                tasks[r][q].pc = "streaming" /\ tasks'[r][q].pc = "returned"

\* C8: at most 10 tasks of a run stream at a time; a task that finds all 10 slots
\* taken neither streams nor emits narration_delta until a task of the run
\* releases a slot.
TheoremC8 == []LimiterHolds /\ [][SlotOnlyOnRelease]_vars

\* The task that found every slot taken is streaming after a task has returned,
\* and every slot is held again.
WitnessC8 ==
    \E r \in RunIds :
        /\ Len(tasks[r]) > _MAX_CONCURRENCY
        /\ tasks[r][Len(tasks[r])].pc = "streaming"
        /\ \E q \in TaskIds(r) : tasks[r][q].pc = "returned"
        /\ Cardinality(Holders(r)) = _MAX_CONCURRENCY

\* C9: whenever a run is completed every task of it has returned with its
\* terminal event in the log and its Result recorded, nobody waits for the
\* limiter, and every slot is free.
TheoremC9 ==
    \A r \in RunIds :
        runs[r].status = "completed" =>
            /\ Len(tasks[r]) = Len(swarm[r].models) * swarm[r].reps
            /\ \A p \in TaskIds(r) :
                  /\ tasks[r][p].pc = "returned"
                  /\ tasks[r][p].result # None
                  /\ Cardinality(TaskEvents(runs[r].events, tasks[r][p],
                                            TerminalTypes)) = 1
            /\ swarm[r].sem.waiters = <<>>
            /\ swarm[r].sem.value = _MAX_CONCURRENCY

\* A run with more tasks than slots is completed, one of its tasks having
\* failed.
WitnessC9 ==
    \E r \in RunIds :
        /\ runs[r].status = "completed"
        /\ Len(tasks[r]) > _MAX_CONCURRENCY
        /\ \E p \in TaskIds(r) : tasks[r][p].stream = "raised"

\* C10: once run_swarm has resolved its scenario, the run eventually becomes
\* completed, with more tasks than limiter slots and whether or not the
\* streaming handler ever takes anything from the queue.
TheoremC10 ==
    (IF Len(runs) >= 1 THEN swarm[1].pc \in {"gather", "done"} ELSE FALSE)
        ~> (IF Len(runs) >= 1 THEN runs[1].status = "completed" ELSE FALSE)

\* The run is completed with run_completed in the log, every item still on the
\* queue: nobody has read it.
WitnessC10 ==
    \E r \in RunIds :
        /\ runs[r].status = "completed"
        /\ Len(tasks[r]) > _MAX_CONCURRENCY
        /\ runs[r].queue.head = 0
        /\ EventsOfType(runs[r].events, "run_completed") # {}

\* C11: once run_swarm has returned, the run_completed event reads "Swarm
\* finished: c/t succeeded, e errors" where c is the number of tasks whose
\* recorded Result is completed, e the number of tasks with a model_run_error
\* event, t = |models| x reps is the total that run_started announced, c and e
\* are not negative and c + e = t.
TheoremC11 ==
    \A r \in RunIds :
        swarm[r].pc = "done" =>
            LET events == runs[r].events
                total == Len(swarm[r].models) * swarm[r].reps
                c == Cardinality({p \in TaskIds(r) :
                        runs[r].results[ResultKey(tasks[r][p].model.id,
                                                   tasks[r][p].rep_index)].status
                            = "completed"})
                e == Cardinality({p \in TaskIds(r) :
                        TaskEvents(events, tasks[r][p], {"model_run_error"}) # {}})
            IN /\ c >= 0 /\ e >= 0 /\ c + e = total
               /\ events[Len(events)].content =
                     <<"Swarm finished: ">> \o Str(c) \o <<"/">> \o Str(total)
                         \o <<" succeeded, ">> \o Str(e) \o <<" errors">>
               /\ events[1].content =
                     <<"Swarm started: ">> \o Str(Len(swarm[r].models))
                         \o <<" models x ">> \o Str(swarm[r].reps) \o <<" reps = ">>
                         \o Str(total) \o <<" tasks">>

\* A run of two tasks has finished with one task completed and one failed, and
\* its summary says 1/2 succeeded, 1 errors.
WitnessC11 ==
    \E r \in RunIds :
        /\ swarm[r].pc = "done"
        /\ runs[r].events[Len(runs[r].events)].content =
              <<"Swarm finished: ", "1", "/", "2", " succeeded, ", "1", " errors">>

\* the call made in this step, when the step is an outside call
LastCall(cs) == cs[Len(cs)]

IsCallStep == Len(calls') = Len(calls) + 1

\* C12: a set_model_result call on a known run leaves get_results with exactly
\* the keys it had plus the call's key, the call's result under that key and
\* every other entry as it was; so a second call for a key that has an entry
\* replaces the entry and adds none.
TheoremC12 ==
    [][(IsCallStep /\ LastCall(calls').op = "set_model_result"
            /\ ~LastCall(calls').raised)
        => LET c == LastCall(calls')
               key == <<c.model_id, "::">> \o Str(c.rep_index)
               before == GetResults(runs[c.id])
               after == GetResults(runs'[c.id])
           IN /\ DOMAIN after = (DOMAIN before) \cup {key}
              /\ after[key] = The(c.result)
              /\ \A k \in (DOMAIN before) \ {key} : after[k] = before[k]
              /\ key \in DOMAIN before =>
                    Cardinality(DOMAIN after) = Cardinality(DOMAIN before)]_vars

\* A key was set, another key was set, and the first key was set again with a
\* different result: two entries, the first key holding the later result.
WitnessC12 ==
    /\ Len(calls) = 4
    /\ \A i \in 2..4 : calls[i].op = "set_model_result" /\ ~calls[i].raised
    /\ calls[2].model_id = calls[4].model_id
    /\ calls[2].rep_index = calls[4].rep_index
    /\ calls[3].model_id = calls[2].model_id
    /\ calls[3].rep_index # calls[2].rep_index
    /\ calls[2].result # calls[4].result
    /\ Cardinality(DOMAIN GetResults(runs[calls[4].id])) = 2
    /\ GetResults(runs[calls[4].id])[ResultKey(calls[4].model_id, calls[4].rep_index)]
          = The(calls[4].result)

\* the events of es whose model_id is m, in the order of es
RECURSIVE OfModel(_, _)
OfModel(es, m) ==
    IF es = <<>> THEN <<>>
    ELSE (IF Head(es).model_id = Some(m) THEN <<Head(es)>> ELSE <<>>)
             \o OfModel(Tail(es), m)

\* C13: a get_events call with model filter m returns, in log order, exactly the
\* events whose model_id is m among those the call would return without the
\* filter (the whole log, or the log after the cursor): run-level events, which
\* have no model_id, are never among them.
TheoremC13 ==
    [][(query' # query /\ query' # NoQuery /\ ~query'.raised
            /\ query'.model_id # None)
        => LET events == runs[query'.run_id].events
               unfiltered == IF query'.cursor = None THEN events
                             ELSE LogAfter(events, Int_(The(query'.cursor)))
           IN /\ query'.result = OfModel(unfiltered, The(query'.model_id))
              /\ \A i \in 1..Len(query'.result) :
                    query'.result[i].agent_id # "swarm"]_vars

\* A call with a cursor and a model filter returned some but not all of the
\* events after the cursor, the log holding events of another model too.
WitnessC13 ==
    /\ query # NoQuery
    /\ query.cursor = Some(<<"1">>)
    /\ query.model_id = Some("v/m1")
    /\ Len(query.result) >= 2
    /\ \E i \in 1..Len(runs[query.run_id].events) :
          runs[query.run_id].events[i].model_id = Some("v/m2")

\* C14 (state part): a run's status is running or completed.
StatusIsKnown ==
    \A r \in RunIds : runs[r].status \in {"running", "completed"}

\* C14 (step part): no step removes a run, a run is created running, and a
\* completed run stays completed.
StatusNeverReopens ==
    /\ Len(runs') >= Len(runs)
    /\ \A r \in 1..Len(runs') :
          IF r \in RunIds
          THEN runs[r].status = "completed" => runs'[r].status = "completed"
          ELSE runs'[r].status = "running"

\* C14: a run is created running and goes from running to completed once; no
\* sequence of runtime calls, repeated set_run_complete and later add_run_event
\* and set_model_result calls included, takes a completed run back to running.
TheoremC14 == []StatusIsKnown /\ [][StatusNeverReopens]_vars

\* A run was completed, then given another event, then completed again: it is
\* completed, with two sentinels on its queue around the event.
WitnessC14 ==
    \E r \in RunIds :
        /\ runs[r].status = "completed"
        /\ Len(runs[r].queue.items) = 3
        /\ IsSentinel(runs[r].queue.items[1])
        /\ ~IsSentinel(runs[r].queue.items[2])
        /\ IsSentinel(runs[r].queue.items[3])

SessionOps == {"get_session", "add_session_message"}

RunOps ==
    {"add_run_event", "set_model_result", "get_results", "get_events",
     "set_run_complete"}

\* C15: a call of get_session or add_session_message with an id no session has,
\* or of add_run_event, set_model_result, get_results, get_events or
\* set_run_complete with an id no run has, raises, and a call that raises leaves
\* every session and every run as it was (and creates none).
TheoremC15 ==
    [][IsCallStep =>
        LET c == LastCall(calls')
        IN /\ (c.op \in SessionOps /\ c.id \notin DOMAIN sessions) => c.raised
           /\ (c.op \in RunOps /\ c.id \notin DOMAIN runs) => c.raised
           /\ c.raised => /\ sessions' = sessions
                          /\ runs' = runs
                          /\ swarm' = swarm
                          /\ tasks' = tasks]_vars

\* With one session and one run in the registry, calls with unknown ids were
\* refused and the session and the run are as they were created.
WitnessC15 ==
    /\ Len(calls) = 4
    /\ Len(sessions) = 1
    /\ Len(runs) = 1
    /\ calls[3].op = "add_session_message" /\ calls[3].raised
    /\ calls[4].op \in RunOps /\ calls[4].raised
    /\ sessions[1].messages = <<>>
    /\ runs[1].cursor = 0
    /\ runs[1].results = <<>>
    /\ QueueEmpty(runs[1].queue)

\* a spec without a non-empty prompt_template or prompt
LacksPrompt(spec) ==
    \A k \in {"prompt_template", "prompt"} : k \notin DOMAIN spec \/ spec[k] = <<>>

\* C16 (state part): a run whose run_swarm failed in scenario resolution has no
\* task, no event (its cursor is 0 and its queue never received anything), no
\* Result, and is still running.
AbortedRunIsUntouched ==
    \A r \in RunIds :
        swarm[r].pc = "raised" =>
            /\ tasks[r] = <<>>
            /\ runs[r].events = <<>>
            /\ runs[r].cursor = 0
            /\ runs[r].queue.items = <<>>
            /\ DOMAIN runs[r].results = {}
            /\ runs[r].status = "running"

\* C16 (step part): the first step of run_swarm on a spec that lacks a prompt, or
\* whose eval_questions are an empty list, ends in the exception; and a run_swarm
\* that has failed does nothing more.
AbortIsFirstAndFinal ==
    \A r \in RunIds :
        /\ (swarm[r].pc = "scheduled" /\ swarm'[r].pc # "scheduled"
                /\ swarm[r].spec # None
                /\ (LacksPrompt(The(swarm[r].spec))
                      \/ ("eval_questions" \in DOMAIN The(swarm[r].spec)
                            /\ The(The(swarm[r].spec).eval_questions).items = <<>>)))
              => swarm'[r].pc = "raised"
        /\ swarm[r].pc = "raised" =>
              swarm'[r] = swarm[r] /\ runs'[r] = runs[r] /\ tasks'[r] = tasks[r]

\* C16: when scenario resolution fails in run_swarm (the spec does not
\* normalize, or the default scenario cannot be loaded) the exception leaves
\* run_swarm before anything has started: no task, no event, no Result.
TheoremC16 == []AbortedRunIsUntouched /\ [][AbortIsFirstAndFinal]_vars

\* run_swarm has failed on a spec without a prompt.
WitnessC16 ==
    \E r \in RunIds :
        /\ swarm[r].pc = "raised"
        /\ swarm[r].spec # None
        /\ LacksPrompt(The(swarm[r].spec))
        /\ Len(swarm[r].models) * swarm[r].reps >= 1

\* C17: when the spec supplied for a run fails validation, the run is never
\* created: the registry holds no run whose run_swarm failed on its spec.
ClaimC17 ==
    \A r \in RunIds : ~(swarm[r].pc = "raised" /\ swarm[r].spec # None)

\* C18: a run started with the id of a session that is ready_to_confirm (its
\* turns produced a spec) has run_swarm invoked with a spec, not with none.
ClaimC18 ==
    [][(IsCallStep /\ LastCall(calls').op = "start_swarm_run"
            /\ LastCall(calls').session # None
            /\ The(LastCall(calls').session) \in DOMAIN sessions
            /\ sessions[The(LastCall(calls').session)].ready_to_confirm)
        => /\ LastCall(calls').spec # None
           /\ swarm'[LastCall(calls').id].spec # None]_vars

\* C19: a run started from a session is bound to that session and starting it
\* creates no session: the run's session_id is the id the caller supplied and
\* the registry has the sessions it had.
ClaimC19 ==
    [][(IsCallStep /\ LastCall(calls').op = "start_swarm_run"
            /\ LastCall(calls').session # None
            /\ The(LastCall(calls').session) \in DOMAIN sessions)
        => /\ runs'[LastCall(calls').id].session_id = The(LastCall(calls').session)
           /\ Len(sessions') = Len(sessions)]_vars

\* C20: a completed run has a non-empty export path.
ClaimC20 ==
    \A r \in RunIds : runs[r].status = "completed" => runs[r].sse_sample_path # <<>>

\* C21: for every run whose sse_sample_path is set, the file at that path holds
\* exactly one wire frame per event the run had when write_sse_sample was called
\* for it (a prefix of the run's log), in cursor order, and nothing of an earlier
\* export or of another run.
ClaimC21 ==
    \A r \in RunIds :
        runs[r].sse_sample_path # <<>> =>
            \E path \in DOMAIN disk.files :
                /\ PathStr(path) = runs[r].sse_sample_path
                /\ \E n \in 0..Len(runs[r].events) :
                      disk.files[path] = SampleText(SubSeq(runs[r].events, 1, n))

\* the result has the status "completed"
IsCompleted(result) == "status" \in DOMAIN result /\ result.status = "completed"

\* the calls before the last one that exported run id and did not raise
EarlierExports(cs, id) ==
    {i \in 1..(Len(cs) - 1) :
        cs[i].op = "export_run_results" /\ cs[i].id = id /\ ~cs[i].raised}

\* C22: an export_run_results call changes no session, run or task; when it
\* does not raise, the summary it leaves in the run's directory has total = the
\* number of entries of the run's result map, completed = the number of entries
\* with status completed and errored = the number of all other entries (so
\* completed + errored = total); and when the previous export of the same run
\* read the same result map, the call leaves every file of the disk as it was.
TheoremC22 ==
    [][(IsCallStep /\ LastCall(calls').op = "export_run_results")
        => LET c == LastCall(calls')
           IN /\ runs' = runs /\ sessions' = sessions
              /\ swarm' = swarm /\ tasks' = tasks
              /\ ~c.raised =>
                    LET results == GetResults(runs[c.id])
                        path == FilePath(RunsDir(c.id), <<"summary", ".json">>)
                        summary == disk'.files[path].json
                        earlier == EarlierExports(calls', c.id)
                        last == CHOOSE i \in earlier : \A j \in earlier : j <= i
                    IN /\ path \in DOMAIN disk'.files
                       /\ summary.total = Cardinality(DOMAIN results)
                       /\ summary.completed =
                             Cardinality({k \in DOMAIN results : IsCompleted(results[k])})
                       /\ summary.errored =
                             Cardinality({k \in DOMAIN results : ~IsCompleted(results[k])})
                       /\ summary.completed + summary.errored = summary.total
                       /\ (earlier # {} /\ calls'[last].result = c.result) =>
                             disk' = disk]_vars

\* A run's results were exported twice in a row with the same three entries, one
\* completed, one failed and one with another status: the summary counts one
\* completed and two errored, and the directory holds the summary and one file
\* per entry.
WitnessC22 ==
    /\ Len(calls) = 3
    /\ calls[2].op = "export_run_results" /\ ~calls[2].raised
    /\ calls[3].op = "export_run_results" /\ ~calls[3].raised
    /\ calls[2].id = calls[3].id
    /\ calls[2].result = calls[3].result
    /\ LET dir == RunsDir(calls[3].id)
           summary == disk.files[FilePath(dir, <<"summary", ".json">>)].json
       IN /\ summary.total = 3
          /\ summary.completed = 1
          /\ summary.errored = 2
          /\ Cardinality({path \in DOMAIN disk.files : path.dir = dir}) = 4

\* the (handler, position) pairs that hold the frame of event e of run r
FramesOf(r, e) ==
    {hj \in UNION {{<<h, j>> : j \in 1..Len(handlers[h].frames)} :
                        h \in 1..Len(handlers)} :
        handlers[hj[1]].run_id = r /\ handlers[hj[1]].frames[hj[2]] = ToSseBlock(e)}

\* C23: with several streaming handlers on a run's queue, every event taken from
\* the queue has its frame in exactly one handler, exactly once; an event still
\* on the queue has no frame anywhere; and each handler's own frames are in
\* increasing cursor order.
TheoremC23 ==
    /\ \A r \in RunIds :
          LET q == runs[r].queue
          IN \A i \in 1..Len(q.items) :
                ~IsSentinel(q.items[i]) =>
                    Cardinality(FramesOf(r, q.items[i])) = (IF i <= q.head THEN 1 ELSE 0)
    /\ \A h \in 1..Len(handlers) :
          \A j \in 1..Len(handlers[h].frames), k \in 1..Len(handlers[h].frames) :
              j < k => Int_(handlers[h].frames[j].id) < Int_(handlers[h].frames[k].id)

\* Two handlers read the same run's queue in turns: each holds two frames, the
\* first handler's are not consecutive events, and together they hold every
\* event taken.
WitnessC23 ==
    /\ Len(handlers) = 2
    /\ handlers[1].run_id = handlers[2].run_id
    /\ Len(handlers[1].frames) = 2
    /\ Len(handlers[2].frames) = 2
    /\ Int_(handlers[1].frames[2].id) > Int_(handlers[1].frames[1].id) + 1
    /\ runs[handlers[1].run_id].queue.head = 4

\* C24 (state part): whatever the other runs do, a run has at most
\* _MAX_CONCURRENCY slot holders of its own, its limiter counts its own holders
\* only, and a task of the run waits only while the run's own tasks hold every
\* slot of the run's limiter.
OwnCeiling ==
    \A r \in RunIds :
        swarm[r].pc = "gather" =>
            /\ Cardinality(Holders(r)) <= _MAX_CONCURRENCY
            /\ swarm[r].sem.value + Cardinality(Holders(r)) = _MAX_CONCURRENCY
            /\ \A p \in TaskIds(r) :
                  tasks[r][p].pc = "waiting" =>
                      Cardinality(Holders(r)) = _MAX_CONCURRENCY

\* C24 (step part): a task that reaches the limiter takes a slot at once unless
\* the tasks of its own run hold all of them; a waiting task is woken only by a
\* task of its own run giving its slot back; and a step of one run changes no
\* task and no limiter of another run.
OwnSlotsOnly ==
    \A r \in RunIds :
        /\ \A p \in TaskIds(r) :
              /\ (tasks[r][p].pc = "created" /\ tasks'[r][p].pc # "created") =>
                    tasks'[r][p].pc =
                        (IF Cardinality(Holders(r)) < _MAX_CONCURRENCY
                         THEN "streaming" ELSE "waiting")
              /\ (tasks[r][p].pc = "waiting" /\ tasks'[r][p].pc # "waiting") =>
                    \E q \in TaskIds(r) :
                        tasks[r][q].pc = "streaming" /\ tasks'[r][q].pc = "returned"
        /\ (tasks'[r] # tasks[r] \/ swarm'[r].sem # swarm[r].sem) =>
              \A o \in RunIds \ {r} :
                  tasks'[o] = tasks[o] /\ swarm'[o].sem = swarm[o].sem

\* C24: each run_swarm has its own limiter: with N runs executing at once each
\* run may have up to 10 tasks streaming (10 x N in all), and a task of one run
\* never waits for a slot held by a task of another run.
TheoremC24 == []OwnCeiling /\ [][OwnSlotsOnly]_vars

\* Two runs execute at once, each with ten tasks streaming and one waiting:
\* twenty tasks hold a slot.
WitnessC24 ==
    /\ Len(runs) = 2
    /\ \A r \in RunIds :
          /\ swarm[r].pc = "gather"
          /\ Cardinality({p \in TaskIds(r) : tasks[r][p].pc = "streaming"})
                = _MAX_CONCURRENCY
          /\ \E p \in TaskIds(r) : tasks[r][p].pc = "waiting"

\* ---------------------------------------------------------------- C25
\* The value has a character that is no whitespace.
HasText(v) == v.is_str /\ \E i \in 1..Len(v.text) : v.text[i] \notin Whitespace

\* The text from its first to its last character that is no whitespace
Trimmed(text) ==
    LET inked == {i \in 1..Len(text) : text[i] \notin Whitespace}
        first == CHOOSE i \in inked : \A j \in inked : i <= j
        last == CHOOSE i \in inked : \A j \in inked : j <= i
    IN IF inked = {} THEN <<>> ELSE SubSeq(text, first, last)

\* The allow-listed auxiliary verbs
AuxiliaryVerbs == {SubSeq(prefix, 1, Len(prefix) - 1) : prefix \in _YES_NO_PREFIXES}

\* Trimmed, the text ends with "?" and begins, in whatever case, with an
\* allow-listed verb; with blank set, the verb is followed by a blank.
IsYesNoQuestionWith(text, blank) ==
    LET t == Trimmed(text)
    IN /\ t # <<>>
       /\ t[Len(t)] = "?"
       /\ \E verb \in AuxiliaryVerbs :
             /\ Len(t) > Len(verb)
             /\ blank => t[Len(verb) + 1] = " "
             /\ \A i \in 1..Len(verb) : LowerChar(t[i]) = verb[i]

WellFormedItemWith(item, blank) ==
    /\ item.is_dict
    /\ DOMAIN item.fields = {"id", "category", "question"}
    /\ \A key \in {"id", "category", "question"} : HasText(item.fields[key])
    /\ IsYesNoQuestionWith(item.fields["question"].text, blank)

AcceptableWith(raw, blank) ==
    /\ raw.is_list
    /\ Len(raw.items) >= 1
    /\ \A i \in 1..Len(raw.items) : WellFormedItemWith(raw.items[i], blank)
    /\ \A i, j \in 1..Len(raw.items) :
          i < j => raw.items[i].fields["id"].text # raw.items[j].fields["id"].text

\* acceptable, the verb followed by a blank
Acceptable(raw) == AcceptableWith(raw, TRUE)

\* The items came back in the order given, each with the three keys and the
\* values given, when acceptable; else the call raised and returned nothing.
AcceptedExactlyWhen(acceptable) ==
    LET raw == applied.arg
        out == applied.out
    IN IF acceptable
       THEN /\ ~out.raised
            /\ Len(out.result) = Len(raw.items)
            /\ \A i \in 1..Len(raw.items) :
                  /\ DOMAIN out.result[i] = {"id", "category", "question"}
                  /\ \A key \in {"id", "category", "question"} :
                        out.result[i][key] = raw.items[i].fields[key].text
       ELSE out.raised /\ out.result = <<>>

\* C25 as stated: validate_eval_questions returns exactly on the non-empty
\* lists of mappings with the keys id, category and question, each a string
\* with a character that is no whitespace, the question ending with "?" and
\* beginning with an allow-listed verb, the ids pairwise distinct; it then
\* returns the items in the order given with these three keys; on every other
\* input it raises and returns nothing.
ClaimC25 ==
    (applied.fn = "validate_eval_questions" /\ applied.done) =>
        AcceptedExactlyWhen(AcceptableWith(applied.arg, FALSE))

\* C25, amended: validate_eval_questions returns exactly on the non-empty lists
\* of mappings with the keys id, category and question, each a string with a
\* character that is no whitespace, the question ending with "?" and beginning
\* with an allow-listed verb followed by a blank, the ids pairwise distinct; it
\* then returns the items in the order given, each with these three keys and
\* the values given; on every other input it raises and returns nothing.
TheoremC25 ==
    (applied.fn = "validate_eval_questions" /\ applied.done) =>
        AcceptedExactlyWhen(Acceptable(applied.arg))

\* A list of three questions was accepted, one of them written in capitals with
\* whitespace around it, two of them with ids that differ by a blank only.
WitnessC25 ==
    /\ applied.fn = "validate_eval_questions"
    /\ applied.done
    /\ ~applied.out.raised
    /\ Len(applied.out.result) = 3
    /\ \E i \in 1..3 : applied.out.result[i]["question"] = QuestionOkShouted
    /\ \E i, j \in 1..3 : applied.out.result[i]["id"] = <<" ">> \o applied.out.result[j]["id"]

\* ---------------------------------------------------------------- C26
\* Every item has the three keys with non-empty string values, and a later item
\* repeats the id of an earlier one.
RepeatsAnId(raw) ==
    /\ raw.is_list
    /\ \A i \in 1..Len(raw.items) :
          /\ raw.items[i].is_dict
          /\ DOMAIN raw.items[i].fields = {"id", "category", "question"}
          /\ \A key \in {"id", "category", "question"} :
                raw.items[i].fields[key].is_str /\ raw.items[i].fields[key].text # <<>>
    /\ \E i, j \in 1..Len(raw.items) :
          i < j /\ raw.items[i].fields["id"].text = raw.items[j].fields["id"].text

\* C26: on a list whose items all have the keys id, category and question with
\* non-empty string values and in which a later item repeats the id of an earlier
\* one, validate_eval_questions raises an error that reports the duplicate id.
ClaimC26 ==
    (applied.fn = "validate_eval_questions" /\ applied.done /\ RepeatsAnId(applied.arg)) =>
        LET out == applied.out
        IN /\ out.raised
           /\ out.reason = "duplicate id"
           /\ \E i, j \in 1..Len(applied.arg.items) :
                 /\ i < j
                 /\ applied.arg.items[i].fields["id"].text = out.id
                 /\ applied.arg.items[j].fields["id"].text = out.id

\* ---------------------------------------------------------------- C27
\* The key is present with a text that is not empty.
NonEmptyAt(spec, key) == key \in DOMAIN spec /\ spec[key] # <<>>

PromptGiven(spec) == NonEmptyAt(spec, "prompt_template") \/ NonEmptyAt(spec, "prompt")

\* eval_questions were supplied: the key is there and holds a value
Supplied(spec) == "eval_questions" \in DOMAIN spec /\ spec["eval_questions"] # None

\* The result's prompt is prompt_template when that is non-empty and prompt
\* otherwise, and its keys are prompt, input_data, evaluation and, only when
\* eval_questions were supplied, eval_questions.
PromptAndKeys(spec, result) ==
    /\ result["prompt"] = (IF NonEmptyAt(spec, "prompt_template")
                           THEN spec["prompt_template"] ELSE spec["prompt"])
    /\ DOMAIN result = {"prompt", "input_data", "evaluation"}
                          \cup (IF Supplied(spec) THEN {"eval_questions"} ELSE {})

\* C27 as stated: normalize_spec fails if and only if neither prompt_template
\* nor prompt is present and non-empty, and otherwise returns the prompt and the
\* keys described.
ClaimC27 ==
    (applied.fn = "normalize_spec" /\ applied.done) =>
        /\ applied.out.raised <=> ~PromptGiven(applied.arg)
        /\ ~applied.out.raised => PromptAndKeys(applied.arg, applied.out.result)

\* C27, amended: normalize_spec fails if and only if neither prompt_template nor
\* prompt is present and non-empty, or eval_questions are supplied and do not
\* pass validation; otherwise the result's prompt is prompt_template when it is
\* non-empty and prompt otherwise, and the result has exactly the keys prompt,
\* input_data, evaluation and, only when eval_questions were supplied,
\* eval_questions.
TheoremC27 ==
    (applied.fn = "normalize_spec" /\ applied.done) =>
        /\ applied.out.raised <=>
              \/ ~PromptGiven(applied.arg)
              \/ Supplied(applied.arg) /\ ~Acceptable(The(applied.arg["eval_questions"]))
        /\ ~applied.out.raised => PromptAndKeys(applied.arg, applied.out.result)

\* A spec with both prompt keys non-empty and a valid list of eval_questions was
\* normalized: the prompt is the template, and the result has the fourth key.
WitnessC27 ==
    /\ applied.fn = "normalize_spec"
    /\ applied.done
    /\ ~applied.out.raised
    /\ NonEmptyAt(applied.arg, "prompt_template")
    /\ NonEmptyAt(applied.arg, "prompt")
    /\ applied.out.result["prompt"] = <<"T">>
    /\ "eval_questions" \in DOMAIN applied.out.result

\* ---------------------------------------------------------------- C28
\* The key is present with a value (null counts as no value).
HasValueAt(spec, key) == key \in DOMAIN spec /\ spec[key].kind # "null"

\* The value of input_data when that key is present, else of the first fallback
\* key present, else an empty object
ResolvedInput(spec) ==
    IF HasValueAt(spec, "input_data") THEN spec["input_data"]
    ELSE IF HasValueAt(spec, "emails") THEN spec["emails"]
    ELSE IF HasValueAt(spec, "data") THEN spec["data"]
    ELSE JsonObject(<<>>)

\* C28: the result's input_data is the value of the input_data key when that key
\* is present, else of the fallback key, else an empty object, an array being
\* wrapped as {items: array}.
ClaimC28 ==
    (applied.fn = "normalize_spec" /\ applied.done /\ ~applied.out.raised) =>
        applied.out.result["input_data"] =
            (IF ResolvedInput(applied.arg).kind = "list"
             THEN JsonObject(<<Member(<<"i", "t", "e", "m", "s">>, ResolvedInput(applied.arg))>>)
             ELSE ResolvedInput(applied.arg))

\* ---------------------------------------------------------------- C29
\* The evaluation text by priority: the evaluation key, else the rubric key (each
\* when it holds a text that is not empty), else the rendering of the validated
\* eval_questions, else the default instruction.
EvaluationByPriority(spec) ==
    IF NonEmptyAt(spec, "evaluation") THEN spec["evaluation"]
    ELSE IF NonEmptyAt(spec, "rubric") THEN spec["rubric"]
    ELSE IF Supplied(spec)
         THEN EvalQuestionsToMarkdown(ValidateEvalQuestions(The(spec["eval_questions"])).result)
    ELSE _DEFAULT_EVALUATION

\* C29: the result's evaluation is the evaluation key's text, else the rubric
\* key's, else the markdown rendering of the validated eval_questions, else the
\* default instruction; and eval_questions that are present and do not pass
\* validation make normalize_spec fail, whatever evaluation or rubric is given.
TheoremC29 ==
    (applied.fn = "normalize_spec" /\ applied.done) =>
        /\ (Supplied(applied.arg) /\ ~Acceptable(The(applied.arg["eval_questions"])))
              => applied.out.raised
        /\ ~applied.out.raised =>
              applied.out.result["evaluation"] = EvaluationByPriority(applied.arg)

\* A spec with an empty evaluation, no rubric and three questions in two
\* categories was normalized: the evaluation is the rendering, one heading per
\* category in the order of first occurrence.
WitnessC29 ==
    /\ applied.fn = "normalize_spec"
    /\ applied.done
    /\ ~applied.out.raised
    /\ "evaluation" \in DOMAIN applied.arg
    /\ "rubric" \notin DOMAIN applied.arg
    /\ applied.out.result["evaluation"] =
          <<"# Evaluation Criteria\n\nUse these yes/no questions to evaluate the output.\n",
            "## ", "C", " ", "D", "\n\n",
            "- **", "x", "**: ", "I", "s", " ", "i", "t", "?", "\n",
            "- **", "z", "**: ", "I", "s", " ", "i", "t", "?", "\n",
            "\n",
            "## ", "E", "\n\n",
            "- **", "y", "**: ", " ", "D", "O", " ", "i", "t", "?", "\n", "\n",
            "\n",
            "\n## Pass Condition\n\n- Weighted score >= 0.80">>

\* ---------------------------------------------------------------- C30
\* The event types the tests expect of a confirmed run
SampleTypes ==
    {"tool_call_started", "narration_started", "narration_delta", "llm_content_delta",
     "llm_reasoning_delta", "llm_usage_final", "tool_call_result", "narration_completed"}

\* In the sequence of event types, type occurs between run_started and run_completed.
OccursBetween(types, type) ==
    \E i, j, k \in 1..Len(types) :
        /\ i < j /\ j < k
        /\ types[i] = "run_started"
        /\ types[j] = type
        /\ types[k] = "run_completed"

\* The confirmation of run r has returned a response, and the run's stream has
\* yielded all of SampleStream: content chunks, a reasoning-details chunk and a
\* usage chunk.
ConfirmedWithFullStream(r) ==
    /\ \E c \in 1..Len(calls) :
          /\ calls[c].op = "planner_session_confirm"
          /\ ~calls[c].raised
          /\ calls[c].result # None
          /\ The(calls[c].result).run_id = r
          /\ The(calls[c].result).returned
    /\ Len(tasks[r]) = 1
    /\ tasks[r][1].yielded = Len(SampleStream)
    /\ tasks[r][1].stream = "ended"

\* C30: when the stream of a confirmed run has yielded content chunks, a
\* reasoning-details chunk and a usage chunk, the run's event log, its sample
\* file and its live stream each hold an event of every type of SampleTypes
\* between run_started and run_completed.
ClaimC30 ==
    \A r \in RunIds :
        ConfirmedWithFullStream(r) =>
            \A type \in SampleTypes :
                /\ OccursBetween([i \in 1..Len(runs[r].events) |->
                                    runs[r].events[i].event_type], type)
                /\ SampleOutputPath \in DOMAIN disk.files
                /\ OccursBetween([i \in 1..Len(disk.files[SampleOutputPath]) |->
                                    disk.files[SampleOutputPath][i].event], type)
                /\ \A h \in 1..Len(handlers) :
                      (handlers[h].run_id = r /\ handlers[h].pc = "closed") =>
                          OccursBetween([i \in 1..Len(handlers[h].frames) |->
                                            handlers[h].frames[i].event], type)

\* ---------------------------------------------------------------- C31
\* The positions in run r's log of the events tagged with task p's model id and
\* repetition index
OwnEvents(r, p) ==
    {i \in 1..Len(runs[r].events) :
        /\ runs[r].events[i].model_id = Some(tasks[r][p].model.id)
        /\ runs[r].events[i].rep_index = Some(tasks[r][p].rep_index)}

\* C31: in the log, the events of a task are its model_run_started first, then
\* narration_delta events whose chunk_index is at least 1 and strictly
\* increasing, then at most one terminal event, which ends them; a task that has
\* returned has exactly one terminal event.
TheoremC31 ==
    \A r \in RunIds : \A p \in TaskIds(r) :
        LET log == runs[r].events
            own == OwnEvents(r, p)
            ended == {i \in own : log[i].event_type \in TerminalTypes}
        IN /\ \A i \in own :
                 (log[i].event_type = "model_run_started") <=> (\A j \in own : i <= j)
           /\ \A i \in ended : \A j \in own : j <= i
           /\ Cardinality(ended) <= 1
           /\ tasks[r][p].pc = "returned" => Cardinality(ended) = 1
           /\ \A i \in own :
                 log[i].event_type \in {"model_run_started", "narration_delta"} \cup TerminalTypes
           /\ \A i \in own :
                 log[i].event_type = "narration_delta" =>
                     /\ The(log[i].chunk_index) >= 1
                     /\ \A j \in own :
                           (j < i /\ log[j].event_type = "narration_delta") =>
                               The(log[j].chunk_index) < The(log[i].chunk_index)

\* Two tasks have returned, their events interleaved: an event of the second
\* task lies between two events of the first, and a narration_delta of the
\* first task carries chunk_index 2.
WitnessC31 ==
    \E r \in RunIds :
        /\ Len(tasks[r]) = 2
        /\ \A p \in TaskIds(r) : tasks[r][p].pc = "returned"
        /\ \E i, j, k \in 1..Len(runs[r].events) :
              /\ i < j /\ j < k
              /\ i \in OwnEvents(r, 1) /\ k \in OwnEvents(r, 1)
              /\ j \in OwnEvents(r, 2)
              /\ runs[r].events[k].event_type = "narration_delta"
              /\ runs[r].events[k].chunk_index = Some(2)

\* ---------------------------------------------------------------- C32
\* run_swarm has resolved for run r.
Resolved(r) == swarm[r].pc = "done"

\* The result map of run r has one entry per launched task, each the Result of
\* its task, with the task's model_id and rep_index.
OneResultPerTask(r) ==
    LET results == GetResults(runs[r])
    IN /\ Cardinality(DOMAIN results) = Len(swarm[r].models) * swarm[r].reps
       /\ Len(tasks[r]) = Len(swarm[r].models) * swarm[r].reps
       /\ \A p \in TaskIds(r) :
             LET key == ResultKey(tasks[r][p].model.id, tasks[r][p].rep_index)
             IN /\ key \in DOMAIN results
                /\ results[key].model_id = tasks[r][p].model.id
                /\ results[key].rep_index = tasks[r][p].rep_index
                /\ tasks[r][p].result = Some(results[key])

\* C32 as stated: after run_swarm resolves for a list of K models and R reps,
\* get_results holds exactly K x R entries, one per launched task.
ClaimC32 == \A r \in RunIds : Resolved(r) => OneResultPerTask(r)

DistinctModels(models) ==
    \A i, j \in 1..Len(models) : i # j => models[i].id # models[j].id

\* C32, amended: after run_swarm resolves for a list of K models with pairwise
\* distinct ids and R reps, get_results holds exactly K x R entries, one per
\* launched task, each carrying the model_id and rep_index of its task; no
\* task's Result is missing or overwritten by another task's.
TheoremC32 ==
    \A r \in RunIds :
        (Resolved(r) /\ DistinctModels(swarm[r].models)) => OneResultPerTask(r)

\* A run of two different models has resolved, one task completed and one
\* failed, and the map holds both Results.
WitnessC32 ==
    \E r \in RunIds :
        /\ Resolved(r)
        /\ Len(swarm[r].models) = 2
        /\ DistinctModels(swarm[r].models)
        /\ \E k1, k2 \in DOMAIN GetResults(runs[r]) :
              /\ GetResults(runs[r])[k1].status = "completed"
              /\ GetResults(runs[r])[k2].status = "error"

\* ---------------------------------------------------------------- C33
\* positions in run r's log of the narration_delta events of task p
OwnDeltas(r, p) ==
    {i \in OwnEvents(r, p) : runs[r].events[i].event_type = "narration_delta"}

\* chunk_index of the last narration_delta of task p, 0 when it has none
LastChunkIndex(r, p) ==
    IF OwnDeltas(r, p) = {} THEN 0
    ELSE LET last == CHOOSE i \in OwnDeltas(r, p) : \A j \in OwnDeltas(r, p) : j <= i
         IN The(runs[r].events[last].chunk_index)

\* the Result run r holds for task p, when the task completed
CompletedResultOf(r, p) ==
    LET results == GetResults(runs[r])
        key == ResultKey(tasks[r][p].model.id, tasks[r][p].rep_index)
    IN IF key \in DOMAIN results /\ results[key].status = "completed"
       THEN Some(results[key]) ELSE None

\* C33 as stated: for every completed task, the Result's chunk count equals the
\* number of narration_delta events the task appended and the chunk_index of
\* its last narration_delta.
ClaimC33 ==
    \A r \in RunIds : \A p \in TaskIds(r) :
        CompletedResultOf(r, p) # None =>
            /\ The(CompletedResultOf(r, p)).chunks = Cardinality(OwnDeltas(r, p))
            /\ The(CompletedResultOf(r, p)).chunks = LastChunkIndex(r, p)

\* C33, amended: for every completed task, the Result's chunk count equals the
\* number of chunks its stream yielded other than the done marker; it is at
\* least the number of narration_delta events the task appended and at least
\* the chunk_index of its last narration_delta, and equal to both when every
\* chunk the stream yielded other than the done marker carried content. The
\* done marker is never counted.
TheoremC33 ==
    \A r \in RunIds : \A p \in TaskIds(r) :
        CompletedResultOf(r, p) # None =>
            LET chunks == The(CompletedResultOf(r, p)).chunks
                deltas == Cardinality(OwnDeltas(r, p))
            IN /\ chunks = tasks[r][p].yielded - tasks[r][p].marks
               /\ chunks >= deltas
               /\ chunks >= LastChunkIndex(r, p)
               /\ deltas = tasks[r][p].yielded - tasks[r][p].marks =>
                      chunks = deltas /\ chunks = LastChunkIndex(r, p)

\* A task completed after a chunk with content and a done marker: its Result
\* counts one chunk, and its one narration_delta carries chunk_index 1.
WitnessC33 ==
    \E r \in RunIds : \E p \in TaskIds(r) :
        /\ CompletedResultOf(r, p) # None
        /\ tasks[r][p].yielded = 2
        /\ tasks[r][p].marks = 1
        /\ The(CompletedResultOf(r, p)).chunks = 1
        /\ Cardinality(OwnDeltas(r, p)) = 1
        /\ LastChunkIndex(r, p) = 1

\* ---------------------------------------------------------------- C34
\* the terminal events of task p in run r's log, by type
OwnTerminals(r, p, event_type) ==
    {i \in OwnEvents(r, p) : runs[r].events[i].event_type = event_type}

\* The key of task p has a Result exactly when the log holds a terminal event
\* of the task, and the Result's status names that event.
ResultMatchesTerminal(r, p) ==
    LET results == GetResults(runs[r])
        key == ResultKey(tasks[r][p].model.id, tasks[r][p].rep_index)
        completed == OwnTerminals(r, p, "model_run_completed") # {}
        failed == OwnTerminals(r, p, "model_run_error") # {}
    IN /\ key \in DOMAIN results <=> (completed \/ failed)
       /\ key \in DOMAIN results =>
             /\ results[key].status = "completed" <=> completed
             /\ results[key].status = "error" <=> failed

\* A step never replaces or removes a Result that is recorded, and records one
\* only together with the terminal event of its task.
ResultRecordedOnce ==
    \A r \in RunIds : \A p \in TaskIds(r) :
        LET key == ResultKey(tasks[r][p].model.id, tasks[r][p].rep_index)
        IN IF key \in DOMAIN GetResults(runs[r])
           THEN /\ key \in DOMAIN GetResults(runs'[r])
                /\ GetResults(runs'[r])[key] = GetResults(runs[r])[key]
           ELSE key \in DOMAIN GetResults(runs'[r]) =>
                   /\ Len(runs'[r].events) = Len(runs[r].events) + 1
                   /\ runs'[r].events[Len(runs'[r].events)].event_type \in TerminalTypes
                   /\ runs'[r].events[Len(runs'[r].events)].model_id = Some(tasks[r][p].model.id)
                   /\ runs'[r].events[Len(runs'[r].events)].rep_index = Some(tasks[r][p].rep_index)

\* C34: each task records its Result exactly once, in the step that appends
\* its terminal event: in every state, the task's key has a Result exactly
\* when the log holds the task's terminal event; the status is completed
\* exactly when that event is model_run_completed and error exactly when it is
\* model_run_error.
TheoremC34 ==
    /\ [](\A r \in RunIds : \A p \in TaskIds(r) : ResultMatchesTerminal(r, p))
    /\ [][ResultRecordedOnce]_vars

\* Of two tasks of a run, one has failed and has its error Result while the
\* other is still streaming and has neither a terminal event nor a Result.
WitnessC34 ==
    \E r \in RunIds : \E p, u \in TaskIds(r) :
        /\ OwnTerminals(r, p, "model_run_error") # {}
        /\ ResultKey(tasks[r][p].model.id, tasks[r][p].rep_index)
              \in DOMAIN GetResults(runs[r])
        /\ tasks[r][u].pc = "streaming"
        /\ tasks[r][u].yielded > 0
        /\ ResultKey(tasks[r][u].model.id, tasks[r][u].rep_index)
              \notin DOMAIN GetResults(runs[r])

\* ---------------------------------------------------------------- C35
\* The content_delta of the narration_delta events of task p, joined in the
\* order of the log.
DeltasJoined(r, p) ==
    LET log == runs[r].events
        RECURSIVE Join(_)
        Join(n) == IF n = 0 THEN <<>>
                   ELSE IF n \in OwnDeltas(r, p)
                        THEN Join(n - 1) \o The(log[n].content_delta)
                        ELSE Join(n - 1)
    IN Join(Len(log))

\* C35: for every task with a Result, completed or failed, the Result's output
\* is the concatenation, in emission order, of the content_delta of the
\* narration_delta events of that task; the Result of a failed task keeps the
\* text accumulated before the failure.
TheoremC35 ==
    \A r \in RunIds : \A p \in TaskIds(r) :
        LET results == GetResults(runs[r])
            key == ResultKey(tasks[r][p].model.id, tasks[r][p].rep_index)
        IN key \in DOMAIN results => results[key].output = DeltasJoined(r, p)

\* A task failed after two chunks with content: its error Result holds both
\* deltas in the order they were emitted.
WitnessC35 ==
    \E r \in RunIds : \E p \in TaskIds(r) :
        LET results == GetResults(runs[r])
            key == ResultKey(tasks[r][p].model.id, tasks[r][p].rep_index)
        IN /\ key \in DOMAIN results
           /\ results[key].status = "error"
           /\ Cardinality(OwnDeltas(r, p)) = 2
           /\ results[key].output = <<"b", "a">>

\* ---------------------------------------------------------------- C36
\* run_swarm of run r has returned or raised: nothing more is appended.
WorkOver(r) == swarm[r].pc \in {"done", "raised"}

\* handler h is open on a run whose work is over
OpenAfterWork(h) == h <= Len(handlers) /\ WorkOver(handlers[h].run_id)

HandlerClosed(h) == h <= Len(handlers) /\ handlers[h].pc = "closed"

\* C36: every streaming handler opened on an existing run eventually
\* terminates once the run's work is over, a handler opened after another
\* handler of the run has read the sentinel and a handler of a run whose
\* run_swarm aborted included.
ClaimC36 == \A h \in 1..MaxHandlers : OpenAfterWork(h) ~> HandlerClosed(h)

\* ---------------------------------------------------------------- C37
\* The slots of run r's limiter that no task holds: the counter, and the slots
\* release() has already handed to a waiter that has not resumed yet.
SlotsNotHeld(r) ==
    swarm[r].sem.value
        + Cardinality({p \in TaskIds(r) : tasks[r][p].pc = "woken"})

Settled(r) ==
    /\ swarm[r].pc \in {"gather", "done"}
    /\ \A p \in TaskIds(r) : tasks[r][p].pc = "returned"

\* Every slot of a run whose tasks have all settled is free, and nobody waits.
AllFreeWhenSettled ==
    \A r \in RunIds :
        Settled(r) => /\ swarm[r].sem.value = _MAX_CONCURRENCY
                      /\ swarm[r].sem.waiters = <<>>

\* A step in which a task returns, its stream ended or raised, gives exactly
\* one slot back; a returned task stays returned, and no other step gives a
\* slot back: the slots not held change by the tasks that leave their stream
\* less the tasks that enter theirs.
ReleasedOnceOnExit ==
    \A r \in RunIds :
        swarm[r].pc \in {"gather", "done"} =>
            LET leaving == {p \in TaskIds(r) :
                               tasks[r][p].pc # "returned" /\ tasks'[r][p].pc = "returned"}
                free == SlotsNotHeld(r)
                freeAfter == SlotsNotHeld(r)'
            IN /\ \A p \in TaskIds(r) :
                     tasks[r][p].pc = "returned" => tasks'[r][p].pc = "returned"
               /\ \A p \in leaving : tasks[r][p].pc = "streaming"
               /\ freeAfter = free + Cardinality(leaving)
                     - Cardinality({p \in TaskIds(r) :
                           tasks[r][p].pc # "streaming" /\ tasks'[r][p].pc = "streaming"})

\* C37: a task gives its limiter slot back exactly once on every exit path,
\* stream completion and stream exception: a failing task does not reduce the
\* run's concurrency, and when all tasks of a run have settled all 10 slots are
\* free.
TheoremC37 == []AllFreeWhenSettled /\ [][ReleasedOnceOnExit]_vars

\* A run with more tasks than slots has settled after one of its streams raised
\* while a task was waiting for a slot: all 10 slots are free.
WitnessC37 ==
    \E r \in RunIds :
        /\ Settled(r)
        /\ Len(tasks[r]) > _MAX_CONCURRENCY
        /\ \E p \in TaskIds(r) : tasks[r][p].stream = "raised"
        /\ swarm[r].sem.value = _MAX_CONCURRENCY

\* ---------------------------------------------------------------- C38
\* the per-entry files of run id's directory on disk d: all but the summary
PerEntryFiles(d, id) ==
    {path \in DOMAIN d.files :
        path.dir = RunsDir(id) /\ path.name # <<"summary", ".json">>}

\* C38: an export_run_results call that does not raise writes one file per
\* entry of the result map: two entries that differ in model_id or rep_index
\* have different file names, and the run's directory holds as many per-entry
\* files as the map has entries.
ClaimC38 ==
    [][(IsCallStep /\ LastCall(calls').op = "export_run_results"
            /\ ~LastCall(calls').raised)
        => LET id == LastCall(calls').id
               results == GetResults(runs[id])
           IN /\ \A k1, k2 \in DOMAIN results :
                    (results[k1].model_id # results[k2].model_id
                        \/ results[k1].rep_index # results[k2].rep_index)
                    => PerFileName(results[k1]) # PerFileName(results[k2])
              /\ Cardinality(PerEntryFiles(disk', id)) = Cardinality(DOMAIN results)]_vars

\* ---------------------------------------------------------------- C39
\* the line is a data line: "data:" after the leading whitespace
IsDataLine(line) == StartsWith(Strip(line), <<"data", ":">>)

\* what follows "data:" on a data line, without the whitespace around it
PayloadOf(line) == Strip(SubSeq(Strip(line), 3, Len(Strip(line))))

\* the payload is a well-formed chunk object: JSON text of an object
IsChunkObject(text) == JsonLoads(text).ok /\ JsonLoads(text).value.kind = "dict"

\* C39: parsing a stream line never raises. A blank line, a comment or
\* keepalive line, a line that is no data line and a data line whose payload is
\* no well-formed chunk object yield nothing; "data: [DONE]" yields the done
\* marker; any other data line yields a chunk whose reasoning_details is a list
\* (empty when absent) and whose usage is null when absent.
ClaimC39 ==
    (applied.fn = "_parse_openrouter_sse_line" /\ applied.done) =>
        LET line == applied.arg
            out == applied.out
        IN /\ out.kind # "raised"
           /\ IF ~IsDataLine(line) THEN out.kind = "none"
              ELSE IF PayloadOf(line) = <<"[", "DONE", "]">> THEN out.kind = "done"
              ELSE IF ~IsChunkObject(PayloadOf(line)) THEN out.kind = "none"
              ELSE /\ out.kind = "chunk"
                   /\ out.reasoning_details.kind = "list"
                   /\ out.usage = PGet(JsonLoads(PayloadOf(line)).value, <<"usage">>)

\* ---------------------------------------------------------------- C40
\* Reading text from position a: whether position k lies inside a quoted string
\* ("out" when not, else the quote that opened it, "esc" appended after a
\* backslash), told after the character at k has been read.
RECURSIVE Quoting(_, _, _)
Quoting(text, a, k) ==
    IF k < a THEN <<"out">>
    ELSE LET before == Quoting(text, a, k - 1)
         IN IF Len(before) = 2 THEN <<before[1]>>
            ELSE IF before = <<"out">>
                 THEN IF text[k] \in {"\"", "'"} THEN <<text[k]>> ELSE before
            ELSE IF text[k] = "\\" THEN <<before[1], "esc">>
            ELSE IF text[k] = before[1] THEN <<"out">>
            ELSE before

\* the braces from a to b that stand outside quoted strings
Unquoted(text, a, b, brace) ==
    {k \in a..b : text[k] = brace /\ Quoting(text, a, k - 1) = <<"out">>}

\* The balanced block that starts at the brace at a: it ends at the first brace
\* outside quotes that closes as many as were opened; None when there is none.
BalancedBlock(text, a) ==
    LET ends == {b \in a..Len(text) :
                    /\ b \in Unquoted(text, a, b, "}")
                    /\ Cardinality(Unquoted(text, a, b, "{"))
                          = Cardinality(Unquoted(text, a, b, "}"))}
    IN IF a = 0 \/ ends = {} THEN None
       ELSE Some(SubSeq(text, a, CHOOSE b \in ends : \A c \in ends : b <= c))

\* the object a block parses to once its // comments are stripped, None when
\* there is no block or it does not parse
ObjectOf(block) ==
    IF block = None THEN None
    ELSE IF JsonLoads(StripJsonComments(The(block))).ok
         THEN Some(JsonLoads(StripJsonComments(The(block))).value)
    ELSE None

\* C40: extraction returns the parsed object of the balanced-brace block of the
\* first fence when that parses, else of the balanced-brace block at the first
\* brace of the text; braces inside quoted strings do not count toward the
\* balance and what follows the block is ignored. It returns no spec when
\* there is no balanced block or the block does not parse, and ready_to_confirm
\* is true exactly when a spec was returned.
TheoremC40 ==
    (applied.fn = "_try_extract_draft_spec" /\ applied.done) =>
        LET text == applied.arg
            fenced == ObjectOf(BalancedBlock(text, FenceBrace(text)))
            first == ObjectOf(BalancedBlock(text, FirstBrace(text)))
        IN /\ applied.out.draft_spec = (IF fenced # None THEN fenced ELSE first)
           /\ applied.out.draft_spec # None => The(applied.out.draft_spec).kind = "dict"
           /\ applied.out.ready_to_confirm <=> applied.out.draft_spec # None

\* The block stands between commentary and holds a closing brace inside a
\* quoted string: the object is returned with the brace in its value.
WitnessC40 ==
    /\ applied.fn = "_try_extract_draft_spec"
    /\ applied.done
    /\ applied.arg # <<>>
    /\ applied.arg[1] = "Sure"
    /\ applied.arg[Len(applied.arg)] = "trailing"
    /\ applied.out.draft_spec = Some(PDict(<<Member(<<"a">>, PStr(<<"}">>))>>))
    /\ applied.out.ready_to_confirm
====
